---- MODULE Spec2Model ----
(***************************************************************************)
(* gitpulse: the local repository analyzer (src/gitpulse/git_analyzer.py). *)
(*                                                                         *)
(* Text is modelled as sequences of tokens: a line of git output is a      *)
(* sequence whose elements are the separators "\t", " ", "/" and atomic    *)
(* pieces of text (a digit, a file name segment, a commit id, a date).     *)
(* The output of one git command is a sequence of lines (splitlines()).    *)
(***************************************************************************)
EXTENDS Integers, Sequences, FiniteSets, TLC

\* ------------------------------------------------------------------ text

TAB == "\t"
SP == " "
Whitespace == {SP, TAB}
Digits == {"0", "1", "2", "3", "4", "5", "6", "7", "8", "9"}

DigitVal(c) ==
    CASE c = "0" -> 0 [] c = "1" -> 1 [] c = "2" -> 2 [] c = "3" -> 3
      [] c = "4" -> 4 [] c = "5" -> 5 [] c = "6" -> 6 [] c = "7" -> 7
      [] c = "8" -> 8 [] c = "9" -> 9

\* str.strip(): leading and trailing whitespace removed.
RECURSIVE LStrip(_)
LStrip(s) ==
    IF s # <<>> /\ Head(s) \in Whitespace THEN LStrip(Tail(s)) ELSE s

RECURSIVE RStrip(_)
RStrip(s) ==
    IF s # <<>> /\ s[Len(s)] \in Whitespace
    THEN RStrip(SubSeq(s, 1, Len(s) - 1))
    ELSE s

Strip(s) == RStrip(LStrip(s))

\* str.split(sep): the fields between the occurrences of sep ("" gives [""]).
RECURSIVE SplitAcc(_, _, _)
SplitAcc(s, sep, cur) ==
    IF s = <<>> THEN <<cur>>
    ELSE IF Head(s) = sep THEN <<cur>> \o SplitAcc(Tail(s), sep, <<>>)
    ELSE SplitAcc(Tail(s), sep, Append(cur, Head(s)))

Split(s, sep) == SplitAcc(s, sep, <<>>)

\* str.split(sep, 1): at most one split, at the first occurrence of sep.
RECURSIVE SplitOnceAcc(_, _, _)
SplitOnceAcc(s, sep, cur) ==
    IF s = <<>> THEN <<cur>>
    ELSE IF Head(s) = sep THEN <<cur, Tail(s)>>
    ELSE SplitOnceAcc(Tail(s), sep, Append(cur, Head(s)))

SplitOnce(s, sep) == SplitOnceAcc(s, sep, <<>>)

\* str.split() without argument: runs of whitespace separate, no empty fields.
RECURSIVE SplitWsAcc(_, _)
SplitWsAcc(s, cur) ==
    IF s = <<>> THEN (IF cur = <<>> THEN <<>> ELSE <<cur>>)
    ELSE IF Head(s) \in Whitespace
         THEN (IF cur = <<>> THEN <<>> ELSE <<cur>>) \o SplitWsAcc(Tail(s), <<>>)
    ELSE SplitWsAcc(Tail(s), Append(cur, Head(s)))

SplitWs(s) == SplitWsAcc(s, <<>>)

\* int(field) succeeds on a non-empty run of decimal digits (the only numbers
\* git prints in a count field); anything else is a ValueError.
IsInt(f) == f # <<>> /\ \A i \in 1..Len(f) : f[i] \in Digits

RECURSIVE ToIntAcc(_, _)
ToIntAcc(f, acc) ==
    IF f = <<>> THEN acc ELSE ToIntAcc(Tail(f), 10 * acc + DigitVal(Head(f)))

ToInt(f) == ToIntAcc(f, 0)

\* Python's sorted(items, key=..., reverse=True): a stable sort, so items with
\* equal keys keep their order.  keys[i] is the key of items[i].
SortedDesc(items, keys) ==
    LET n == Len(items)
        pos(i) == 1 + Cardinality({j \in 1..n :
                        keys[j] > keys[i] \/ (keys[j] = keys[i] /\ j < i)})
    IN  [p \in 1..n |-> items[CHOOSE i \in 1..n : pos(i) = p]]

\* Index of the entry of a list of records with the given path, 0 if none
\* (the lookup of a dict keyed by path, kept in insertion order).
IndexOfPath(entries, path) ==
    IF \E i \in 1..Len(entries) : entries[i].path = path
    THEN CHOOSE i \in 1..Len(entries) : entries[i].path = path
    ELSE 0

\* ------------------------------------------------------------ get_hotspots

\* Faulty variant: a path already seen is not counted again.
CountPathOnce(counts, path) ==
    IF IndexOfPath(counts, path) = 0
    THEN Append(counts, [path |-> path, count |-> 1])
    ELSE counts

\* counts[path] = counts.get(path, 0) + 1, on a dict kept in first-seen order.
CountPath(counts, path) ==
    LET i == IndexOfPath(counts, path)
    IN  IF i = 0 THEN Append(counts, [path |-> path, count |-> 1])
        ELSE [counts EXCEPT ![i].count = @ + 1]

RECURSIVE HotspotCounts(_, _)
HotspotCounts(lines, counts) ==
    IF lines = <<>> THEN counts
    ELSE LET path == Strip(Head(lines))
         IN  IF path = <<>> THEN HotspotCounts(Tail(lines), counts)
             ELSE HotspotCounts(Tail(lines), CountPath(counts, path))

\* path.split("/")[0] if "/" in path else ""
Directory(path) ==
    IF \E i \in 1..Len(path) : path[i] = "/" THEN Split(path, "/")[1] ELSE <<>>

\* Faulty variant: an ascending sort, reversed (entries with equal counts change places).
HotspotOrderReversed(counts) ==
    LET n == Len(counts)
        asc == SortedDesc(counts, [i \in 1..n |-> 0 - counts[i].count])
    IN  [i \in 1..n |-> asc[n + 1 - i]]

HotspotOrder(counts) ==
    SortedDesc(counts, [i \in 1..Len(counts) |-> counts[i].count])

get_hotspots(stdout) ==
    LET sorted == HotspotOrder(HotspotCounts(stdout, <<>>))
    IN  [i \in 1..Len(sorted) |->
            [path |-> sorted[i].path,
             change_count |-> sorted[i].count,
             directory |-> Directory(sorted[i].path)]]

\* --------------------------------------------------- parsed results, errors

\* What a function call gives: a value, or the exception it raised.
Ok(v) == [err |-> "none", val |-> v]
Raised(e) == [err |-> e, val |-> <<>>]

\* A count field of a numstat line: int(s) if s != "-" else 0.
CountValid(f) == f = <<"-">> \/ IsInt(f)
\* Faulty variant: the placeholder of a binary file counts as one line.
CountOfPlaceholder(f) == IF f = <<"-">> THEN 1 ELSE ToInt(f)
CountOf(f) == IF f = <<"-">> THEN 0 ELSE ToInt(f)

\* ----------------------------------------------------------- get_file_tree

RECURSIVE FileTreeFold(_, _)
FileTreeFold(lines, file_tree) ==
    IF lines = <<>> THEN Ok(file_tree)
    ELSE LET line == Strip(Head(lines))
             parts == Split(line, TAB)
         IN  IF line = <<>> \/ Len(parts) < 3
             THEN FileTreeFold(Tail(lines), file_tree)
             ELSE IF ~CountValid(parts[1]) THEN Raised("ValueError")
             ELSE FileTreeFold(Tail(lines),
                      Append(file_tree, [path |-> parts[3],
                                         loc |-> CountOf(parts[1]),
                                         churn |-> 0]))

get_file_tree(stdout) == FileTreeFold(stdout, <<>>)

\* --------------------------------------------------------------- get_churn

\* churn: dict path -> {additions, deletions}, in first-seen order.
\* Faulty variant: a later line of a path replaces its counts.
ChurnAssign(churn, path, additions, deletions) ==
    LET i == IndexOfPath(churn, path)
        base == IF i = 0
                THEN Append(churn, [path |-> path, additions |-> 0,
                                    deletions |-> 0])
                ELSE churn
        k == IF i = 0 THEN Len(base) ELSE i
    IN  [base EXCEPT ![k].additions = additions, ![k].deletions = deletions]

\* if path not in churn: churn[path] = {0, 0}; then both counts are added.
ChurnAdd(churn, path, additions, deletions) ==
    LET i == IndexOfPath(churn, path)
        base == IF i = 0
                THEN Append(churn, [path |-> path, additions |-> 0,
                                    deletions |-> 0])
                ELSE churn
        k == IF i = 0 THEN Len(base) ELSE i
    IN  [base EXCEPT ![k].additions = @ + additions,
                     ![k].deletions = @ + deletions]

RECURSIVE ChurnFold(_, _)
ChurnFold(lines, churn) ==
    IF lines = <<>> THEN Ok(churn)
    ELSE LET line == Strip(Head(lines))
             parts == Split(line, TAB)
         IN  IF line = <<>> \/ Len(parts) < 3
             THEN ChurnFold(Tail(lines), churn)
             ELSE IF ~CountValid(parts[1]) \/ ~CountValid(parts[2])
             THEN Raised("ValueError")
             ELSE ChurnFold(Tail(lines),
                      ChurnAdd(churn, parts[3], CountOf(parts[1]),
                               CountOf(parts[2])))

\* Faulty variant: sorted without reverse=True.
ChurnOrderAscending(churn) ==
    SortedDesc(churn,
        [i \in 1..Len(churn) |-> 0 - (churn[i].additions + churn[i].deletions)])

ChurnOrder(churn) ==
    SortedDesc(churn,
        [i \in 1..Len(churn) |-> churn[i].additions + churn[i].deletions])

get_churn(stdout) ==
    LET folded == ChurnFold(stdout, <<>>)
    IN  IF folded.err # "none" THEN folded ELSE Ok(ChurnOrder(folded.val))

\* ------------------------------------------------ analyze_repo: the merge

\* churn_map = {item["path"]: item["additions"] + item["deletions"] ...}:
\* a later item with the same path replaces an earlier one.
ChurnMapGet(churn, path) ==
    LET hits == {i \in 1..Len(churn) : churn[i].path = path}
        last == CHOOSE i \in hits : \A j \in hits : j <= i
    IN  IF hits = {} THEN 0
        ELSE churn[last].additions + churn[last].deletions

\* Faulty variant: only the additions are merged.
MergeAdditions(file_tree, churn) ==
    [i \in 1..Len(file_tree) |->
        [file_tree[i] EXCEPT !.churn =
            IF IndexOfPath(churn, file_tree[i].path) = 0 THEN 0
            ELSE churn[IndexOfPath(churn, file_tree[i].path)].additions]]

\* Faulty variant: entries without a churn item are left out.
MergeChurnJoin(file_tree, churn) ==
    SelectSeq([i \in 1..Len(file_tree) |->
                  [file_tree[i] EXCEPT !.churn = ChurnMapGet(churn, file_tree[i].path)]],
              LAMBDA entry : IndexOfPath(churn, entry.path) # 0)

MergeChurn(file_tree, churn) ==
    [i \in 1..Len(file_tree) |->
        [file_tree[i] EXCEPT !.churn = ChurnMapGet(churn, file_tree[i].path)]]

\* ---------------------------------------------------- dates (datetime)

\* The time-of-day and UTC-offset parts of an ISO date are atomic tokens;
\* the tables give minutes after midnight and minutes east of UTC.
TimeTokens == {"T00:00:00", "T12:00:00", "T23:30:00"}
TimeMinutes(t) ==
    CASE t = "T00:00:00" -> 0 [] t = "T12:00:00" -> 720 [] t = "T23:30:00" -> 1410
TzTokens == {"+00:00", "-05:00", "+02:00"}
TzMinutes(z) ==
    CASE z = "+00:00" -> 0 [] z = "-05:00" -> -300 [] z = "+02:00" -> 120

IsLeap(y) == (y % 4 = 0 /\ y % 100 # 0) \/ y % 400 = 0

DaysInMonth(y, m) ==
    CASE m \in {1, 3, 5, 7, 8, 10, 12} -> 31
      [] m \in {4, 6, 9, 11} -> 30
      [] m = 2 -> IF IsLeap(y) THEN 29 ELSE 28

RECURSIVE DaysBeforeMonth(_, _)
DaysBeforeMonth(y, m) ==
    IF m = 1 THEN 0 ELSE DaysBeforeMonth(y, m - 1) + DaysInMonth(y, m - 1)

\* date.toordinal(): days of the proleptic Gregorian calendar, 0001-01-01 = 1.
Ordinal(y, m, d) ==
    LET p == y - 1
    IN  365 * p + (p \div 4) - (p \div 100) + (p \div 400)
          + DaysBeforeMonth(y, m) + d

MinutesPerDay == 1440
DaysPerWeek == 7

\* datetime.fromisoformat on "YYYY-MM-DDThh:mm:ss+hh:mm": the fields, and the
\* instant (minutes on the UTC time line) aware datetimes are compared by.
IsoShape(s) ==
    /\ Len(s) = 12
    /\ \A i \in {1, 2, 3, 4, 6, 7, 9, 10} : s[i] \in Digits
    /\ s[5] = "-" /\ s[8] = "-"
    /\ s[11] \in TimeTokens /\ s[12] \in TzTokens

IsoValid(s) ==
    /\ IsoShape(s)
    /\ LET y == ToInt(SubSeq(s, 1, 4))
           m == ToInt(SubSeq(s, 6, 7))
           d == ToInt(SubSeq(s, 9, 10))
       IN  y >= 1 /\ m \in 1..12 /\ d >= 1 /\ d <= DaysInMonth(y, m)

fromisoformat(s) ==
    LET y == ToInt(SubSeq(s, 1, 4))
        m == ToInt(SubSeq(s, 6, 7))
        d == ToInt(SubSeq(s, 9, 10))
    IN  [year |-> y, month |-> m, day |-> d,
         instant |-> Ordinal(y, m, d) * MinutesPerDay
                       + TimeMinutes(s[11]) - TzMinutes(s[12])]

\* ------------------------------------------------------- _quarter_dates

\* A cohort key "<year>-Q<q>" is the pair [year, q]; keys of four-digit years
\* sort as strings the way (year, q) sorts.
CohortKey(dt) == [year |-> dt.year, q |-> ((dt.month - 1) \div 3) + 1]
KeyRank(k) == 4 * k.year + k.q

\* (after_date, before_date, cohort_end_dt): the exclusive bounds handed to
\* git, and the last day of the quarter at UTC midnight.
quarter_dates(k) ==
    LET year == k.year
        starts == CASE k.q = 1 -> <<year - 1, 12, 31>> [] k.q = 2 -> <<year, 3, 31>>
                    [] k.q = 3 -> <<year, 6, 30>> [] k.q = 4 -> <<year, 9, 30>>
        ends == CASE k.q = 1 -> <<year, 4, 1>> [] k.q = 2 -> <<year, 7, 1>>
                  [] k.q = 3 -> <<year, 10, 1>> [] k.q = 4 -> <<year + 1, 1, 1>>
        end_dts == CASE k.q = 1 -> <<year, 3, 31>> [] k.q = 2 -> <<year, 6, 30>>
                     [] k.q = 3 -> <<year, 9, 30>> [] k.q = 4 -> <<year, 12, 31>>
    IN  [after |-> starts, before |-> ends,
         cohort_end |-> Ordinal(end_dts[1], end_dts[2], end_dts[3]) * MinutesPerDay]

\* ------------------------------------------ get_survival_curves: the parsers

\* Commit ids of full length (40 hexadecimal digits) and an abbreviated one.
FullShas == {"sha_a", "sha_b", "sha_c"}
ShaLenIs40(field) == Len(field) = 1 /\ field[1] \in FullShas

\* The "%H %aI" lines: sha, date_str = line.split(" ", 1); an unpacking of one
\* part, or a date fromisoformat rejects, is a ValueError.
RECURSIVE ParseCommits(_, _)
ParseCommits(lines, commits) ==
    IF lines = <<>> THEN Ok(commits)
    ELSE LET line == Strip(Head(lines))
             parts == SplitOnce(line, SP)
         IN  IF line = <<>> THEN ParseCommits(Tail(lines), commits)
             ELSE IF Len(parts) < 2 \/ ~IsoValid(parts[2]) THEN Raised("ValueError")
             ELSE ParseCommits(Tail(lines),
                      Append(commits, [sha |-> parts[1], dt |-> fromisoformat(parts[2])]))

\* cohort_commits[key]: the shas of the commits authored in that quarter.
CohortShas(commits, k) ==
    {commits[i].sha : i \in {j \in 1..Len(commits) : CohortKey(commits[j].dt) = k}}

MaxCohorts == 8

\* sorted(cohort_commits.keys())[-8:]
RECURSIVE AscendingKeys(_)
AscendingKeys(keys) ==
    IF keys = {} THEN <<>>
    ELSE LET least == CHOOSE k \in keys : \A o \in keys : KeyRank(k) <= KeyRank(o)
         IN  <<least>> \o AscendingKeys(keys \ {least})

\* Faulty variant: the first 8 keys are kept, sorted(...)[:8].
SelectedKeysOldest(commits) ==
    LET all == AscendingKeys({CohortKey(commits[i].dt) : i \in 1..Len(commits)})
    IN  IF Len(all) <= MaxCohorts THEN all ELSE SubSeq(all, 1, MaxCohorts)

SelectedKeys(commits) ==
    LET all == AscendingKeys({CohortKey(commits[i].dt) : i \in 1..Len(commits)})
        n == Len(all)
    IN  IF n <= MaxCohorts THEN all ELSE SubSeq(all, n - MaxCohorts + 1, n)

\* head_date = max(dt for _, dt in commits)
HeadInstant(commits) ==
    LET all == {commits[i].dt.instant : i \in 1..Len(commits)}
    IN  CHOOSE t \in all : \A o \in all : o <= t

\* The quarter-bounded numstat: total_added and files_changed; a binary
\* placeholder in the first field skips the line.
RECURSIVE CohortStat(_, _)
CohortStat(lines, acc) ==
    IF lines = <<>> THEN Ok(acc)
    ELSE LET line == Strip(Head(lines))
             parts == Split(line, TAB)
         IN  IF line = <<>> \/ Len(parts) < 3 \/ parts[1] = <<"-">>
             THEN CohortStat(Tail(lines), acc)
             ELSE IF ~IsInt(parts[1]) THEN Raised("ValueError")
             ELSE CohortStat(Tail(lines),
                      [total_added |-> acc.total_added + ToInt(parts[1]),
                       files_changed |-> acc.files_changed \cup {parts[3]}])

\* Faulty variant: the tab-prefixed content lines are not passed over.
RECURSIVE BlameTallyAll(_, _)
BlameTallyAll(lines, cohort_shas) ==
    IF lines = <<>> THEN 0
    ELSE LET parts == SplitWs(Head(lines))
             hit == /\ Len(parts) >= 3
                    /\ ShaLenIs40(parts[1])
                    /\ parts[1] \in cohort_shas
         IN  (IF hit THEN 1 ELSE 0) + BlameTallyAll(Tail(lines), cohort_shas)

\* _count_surviving_lines for one file's blame listing: the header lines
\* whose first field is a full-length sha of the cohort.
RECURSIVE BlameTally(_, _)
BlameTally(lines, cohort_shas) ==
    IF lines = <<>> THEN 0
    ELSE LET blame_line == Head(lines)
             parts == SplitWs(blame_line)
             hit == /\ ~(blame_line # <<>> /\ Head(blame_line) = TAB)
                    /\ Len(parts) >= 3
                    /\ ShaLenIs40(parts[1])
                    /\ parts[1] \in cohort_shas
         IN  (IF hit THEN 1 ELSE 0) + BlameTally(Tail(lines), cohort_shas)

\* round(min(surviving / total_added, 1.0), 4), in ten-thousandths.
RateScale == 10000
\* Faulty variant: the rate is not capped at 1.0.
SurvivalRateUncapped(surviving, total_added) ==
    (2 * surviving * RateScale + total_added) \div (2 * total_added)

SurvivalRate(surviving, total_added) ==
    IF surviving >= total_added THEN RateScale
    ELSE (2 * surviving * RateScale + total_added) \div (2 * total_added)

\* Faulty variant: the first sample says that nothing survives.
FirstSampleZero == [weeks_elapsed |-> 0, surviving_lines |-> 0]
\* Faulty variant: the curve starts at the first offset.
FirstSampleAtFour == [weeks_elapsed |-> 4, surviving_lines |-> RateScale]
FirstSample == [weeks_elapsed |-> 0, surviving_lines |-> RateScale]
FirstWeeks == 4
\* Faulty variant: every other offset is left out.
StepWeeksDouble == 2 * FirstWeeks
StepWeeks == 4
\* Faulty variant: the range runs one step further.
LastWeeksLate == 52 + StepWeeks
LastWeeks == 52

\* ------------------------------------------------- the repository (inputs)

P_README == <<"README.md">>
P_MAIN == <<"src", "/", "main.py">>
P_UTILS == <<"src", "/", "utils.py">>
P_LOGO == <<"logo.png">>
Paths == {P_README, P_MAIN, P_UTILS}
\* git lists the paths of one commit in path order.
PathOrder == <<P_README, P_MAIN, P_UTILS>>

NumstatLine(a, d, p) == a \o <<TAB>> \o d \o <<TAB>> \o p
CommitLine(sha, date) == <<sha, SP>> \o date
IsoDate(y, m, d, t, z) == y \o <<"-">> \o m \o <<"-">> \o d \o <<t, z>>
Y2024 == <<"2", "0", "2", "4">>
D_FEB10 == IsoDate(Y2024, <<"0", "2">>, <<"1", "0">>, "T12:00:00", "+00:00")
D_MAY20 == IsoDate(Y2024, <<"0", "5">>, <<"2", "0">>, "T12:00:00", "+00:00")
D_BAD == IsoDate(Y2024, <<"1", "3">>, <<"4", "0">>, "T12:00:00", "+00:00")

\* Histories of at most MaxCommits commits, each touching some of Paths.
MaxCommits == 2
Commits == (SUBSET Paths) \ {{}}
Histories == UNION {[1..n -> Commits] : n \in 0..MaxCommits}

\* stdout of `git log --format= --name-only`: per commit of the walk the paths
\* it touched, one per line, then an empty line (the lines the parser's
\* `if path` test drops).
RECURSIVE NameOnlyOut(_)
NameOnlyOut(h) ==
    IF h = <<>> THEN <<>>
    ELSE SelectSeq(PathOrder, LAMBDA p : p \in Head(h)) \o << <<>> >>
           \o NameOnlyOut(Tail(h))

\* The repositories analyze_repo is run on: per git command, its stdout.
R_FIXTURE ==
    [history |-> << {P_UTILS}, {P_README, P_MAIN}, {P_MAIN} >>,
     churnOut |-> << NumstatLine(<<"2">>, <<"0">>, P_UTILS),
                     NumstatLine(<<"1">>, <<"0">>, P_README),
                     NumstatLine(<<"1">>, <<"0">>, P_MAIN),
                     NumstatLine(<<"3">>, <<"0">>, P_MAIN) >>,
     diffOut |-> << NumstatLine(<<"1">>, <<"0">>, P_README),
                    NumstatLine(<<"4">>, <<"0">>, P_MAIN),
                    NumstatLine(<<"2">>, <<"0">>, P_UTILS) >>,
     commitOut |-> << CommitLine("sha_b", D_MAY20), CommitLine("sha_a", D_FEB10) >>]

R_EMPTY ==
    [history |-> <<>>, churnOut |-> <<>>, diffOut |-> <<>>, commitOut |-> <<>>]

\* A binary file, a file deleted before head, a file with no numstat line.
R_BINARY ==
    [history |-> << {P_MAIN}, {P_MAIN, P_UTILS} >>,
     churnOut |-> << NumstatLine(<<"-">>, <<"-">>, P_LOGO),
                     NumstatLine(<<"1">>, <<"2">>, P_MAIN),
                     <<>>,
                     NumstatLine(<<"1", "2">>, <<"0">>, P_UTILS),
                     NumstatLine(<<"3">>, <<"0">>, P_MAIN) >>,
     diffOut |-> << NumstatLine(<<"-">>, <<"-">>, P_LOGO),
                    NumstatLine(<<"2">>, <<"0">>, P_MAIN),
                    NumstatLine(<<"1">>, <<"0">>, P_README) >>,
     commitOut |-> << CommitLine("sha_a", D_FEB10) >>]

\* Lines of unexpected shape: two fields only, a count that is no number, a
\* commit line without a space, a date that does not parse.
R_SHORT ==
    [history |-> << {P_README} >>,
     churnOut |-> << <<"1", TAB, "0">>, NumstatLine(<<"1">>, <<"0">>, P_README) >>,
     diffOut |-> << <<"1", TAB>> \o P_README, NumstatLine(<<"1">>, <<"0">>, P_README) >>,
     commitOut |-> << CommitLine("sha_a", D_FEB10) >>]

R_BADCOUNT ==
    [history |-> << {P_README} >>,
     churnOut |-> << NumstatLine(<<"1">>, <<"x">>, P_README) >>,
     diffOut |-> << NumstatLine(<<"x">>, <<"0">>, P_README) >>,
     commitOut |-> << <<"sha_a">> >>]

R_BADDATE ==
    [history |-> << {P_README} >>,
     churnOut |-> << NumstatLine(<<"1">>, <<"0">>, P_README) >>,
     diffOut |-> << NumstatLine(<<"1">>, <<"0">>, P_README) >>,
     commitOut |-> << CommitLine("sha_a", D_BAD) >>]

Repos == {R_FIXTURE, R_EMPTY, R_BINARY, R_SHORT, R_BADCOUNT, R_BADDATE}

\* What git answers inside get_survival_curves: the quarter-bounded numstat,
\* the revision search, the blame listing of one file.
CohortNumstatOuts ==
    { <<>>,
      << NumstatLine(<<"-">>, <<"-">>, P_LOGO) >>,
      << NumstatLine(<<"2">>, <<"0">>, P_MAIN), <<"7", TAB, "0">> >>,
      << NumstatLine(<<"1">>, <<"0">>, P_MAIN), NumstatLine(<<"2">>, <<"1">>, P_README) >>,
      << NumstatLine(<<"x">>, <<"0">>, P_MAIN) >> }

RevListOuts == { <<>>, << <<"sha_b">> >> }

BlameHeader(sha) == <<sha, SP, "1", SP, "1", SP, "1">>
BlameOuts ==
    { << BlameHeader("sha_a"), <<"author", SP, "Test">>, <<TAB, "line1">>,
         BlameHeader("sha_a"), <<TAB, "sha_a", SP, "1", SP, "1">> >>,
      << BlameHeader("sha_b"), <<"summary", SP, "Add", SP, "utils">>,
         BlameHeader("abc1234"), BlameHeader("sha_a") >> }

BlameReplies ==
    {[st |-> "timeout", out |-> <<>>], [st |-> "nonzero", out |-> <<>>]}
      \cup {[st |-> "ok", out |-> o] : o \in BlameOuts}

\* ------------------------------------------------------------------ state

VARIABLES
    history,    \* the commits of the walk, newest first: the paths each touched
    churnOut,   \* stdout of `git log --numstat --format=`
    diffOut,    \* stdout of `git diff --numstat <empty tree> HEAD`
    commitOut,  \* stdout of `git log --format="%H %aI"`
    cohortOuts, \* the stdouts the quarter-bounded numstat can give here
    handler,    \* the /api/analyze handler: its position, request and response
    ws,         \* concurrent analyze_repo runs: the directories that exist
                \* under the temporary directory and each run's position
    fetch,      \* one fetch_with_retry call: its loop and what it has done
    disk,       \* the cache directory and the Cache.get / Cache.set calls
                \* in progress on it
    blame,      \* one _count_surviving_lines call: its loop over the files
    limiter,    \* a SlidingWindowRateLimiter, its clock and its callers
    pc,         \* analyze_repo: "start", "clone", "gather", "cleanup", "done";
                \* "direct" when an analyzer is called on its own
    dir,        \* the temporary directory: "none", "present", "absent"
    cloneExit,  \* how `git clone --bare` ended: "none" before it ran, then
                \* "ok", "nonzero" or "timeout"
    exits,      \* the _run_git call sites that saw a non-zero exit status
    timeouts,   \* the _run_git call sites whose command ran into the timeout
    task,       \* per analyzer: "idle", "running", "ok" or the exception raised
    res,        \* per analyzer: the value it returned
    sv,         \* get_survival_curves: its position and local variables
    merged,     \* the merge loop of analyze_repo has written file_tree
    pending,    \* what the try block ended with: "return" or an exception
    cleanups,   \* number of cleanup_clone calls made by analyze_repo
    outcome,    \* analyze_repo: "none", "returned" or the exception raised
    returned    \* the dictionary analyze_repo returned

vars == <<history, churnOut, diffOut, commitOut, cohortOuts, blame, limiter, handler, ws, fetch, disk,
          pc, dir, cloneExit, exits, timeouts,
          task, res, sv, merged, pending, cleanups, outcome, returned>>
\* What git_analyzer leaves alone.
inputs == <<history, churnOut, diffOut, commitOut, cohortOuts, blame, limiter, handler, ws, fetch, disk>>

Analyzers == {"hotspots", "file_tree", "churn", "survival"}
Errors == {"RuntimeError", "TimeoutExpired", "ValueError", "MemoryError"}
Settled(a) == task[a] = "ok" \/ task[a] \in Errors
Failed(a) == task[a] \in Errors

NoResult == [hotspots |-> <<>>, file_tree |-> <<>>, churn |-> <<>>, survival |-> <<>>]
NoDict == <<>>
HandlerIdle ==
    [pc |-> "start", repo |-> <<>>, cache |-> {}, head_sha |-> "none",
     stage |-> "none", status |-> "none", raised |-> "none", body |-> "none",
     analyzers |-> "imported", held |-> {}, requests |-> 0, sets |-> 0,
     reply |-> "none"]
\* The line feed of a text, a token of its own.
LF == "\n"
WsIdle == [dirs |-> {}, run |-> <<>>]
FetchIdle == [pc |-> "idle", attempt |-> 0, requests |-> <<>>, sleeps |-> <<>>]
DiskIdle == [names |-> <<>>, inodes |-> <<>>, now |-> 0, call |-> <<>>]
\* Nothing but the part under study is running.
BlameIdle == [pc |-> "idle", files |-> {}, cohort_shas |-> {}, surviving |-> 0, seen |-> <<>>]
LimiterIdle == [requests |-> <<>>, now |-> 0, calls |-> <<>>]
Elsewhere ==
    /\ ws = WsIdle /\ fetch = FetchIdle /\ disk = DiskIdle
    /\ blame = BlameIdle /\ limiter = LimiterIdle
SvIdle ==
    [pc |-> "log", ci |-> 0, total_added |-> 0, files |-> {}, weeks |-> 0,
     data |-> <<>>, curves |-> <<>>, rev |-> <<>>]

\* subprocess.run of a git command: exit status 0, a non-zero exit status, or
\* the 60 s timeout; against a directory that is gone git exits non-zero.
GitStatuses == IF dir = "present" THEN {"ok", "nonzero", "timeout"} ELSE {"nonzero"}

\* Faulty variant: the exit status is not looked at.
run_git_unchecked(st) ==
    IF st = "timeout" THEN "TimeoutExpired" ELSE "none"

\* Faulty variant: a timeout is reported like a non-zero exit.
run_git_error_soft(st) == IF st = "ok" THEN "none" ELSE "RuntimeError"

\* _run_git: RuntimeError on a non-zero exit; TimeoutExpired passes through.
run_git_error(st) ==
    CASE st = "ok" -> "none"
      [] st = "nonzero" -> "RuntimeError"
      [] st = "timeout" -> "TimeoutExpired"

\* ---------------------------------------------------- clone_bare, cleanup

\* Faulty variant: the directory is left behind when the clone fails.
clone_bare_leaking(st) ==
    [err |-> run_git_error(st), dir |-> "present"]

\* clone_bare after mkdtemp: the path on success; on any exception the
\* directory is removed and the exception re-raised.

clone_bare(st) ==
    IF st = "ok" THEN [err |-> "none", dir |-> "present"]
    ELSE [err |-> run_git_error(st), dir |-> "absent"]

\* Faulty variant: shutil.rmtree(path), which raises on a path that is not
\* there.
cleanup_clone_strict(d) ==
    IF d = "present" THEN [err |-> "none", dir |-> "absent"]
    ELSE [err |-> "FileNotFoundError", dir |-> d]

\* shutil.rmtree(path, ignore_errors=True): never raises, the path is gone.
cleanup_clone(d) == [err |-> "none", dir |-> "absent"]

Mkdtemp ==
    /\ pc = "start"
    /\ pc' = "clone"
    /\ dir' = "present"
    /\ UNCHANGED <<inputs, cloneExit, exits, timeouts, task, res, sv, merged, pending,
                   cleanups, outcome, returned>>

CloneBare ==
    /\ pc = "clone"
    /\ \E st \in {"ok", "nonzero", "timeout"} :
         LET c == clone_bare(st)
         IN  /\ cloneExit' = st
             /\ dir' = c.dir
             /\ IF c.err = "none"
                THEN /\ pc' = "gather"
                     /\ task' = [a \in Analyzers |-> "running"]
                     /\ outcome' = outcome
                ELSE /\ pc' = "done"
                     /\ task' = task
                     /\ outcome' = c.err
    /\ UNCHANGED <<inputs, exits, timeouts, res, sv, merged, pending, cleanups, returned>>

\* ------------------------------------------------ the analyzers as threads

\* The call sites of _run_git, and the analyzer each belongs to.
FatalSites == {"name-only", "hash-object", "diff", "numstat", "commit-log"}
CaughtSites == {"cohort-numstat", "rev-list"}
Owner(site) ==
    CASE site = "name-only" -> "hotspots"
      [] site \in {"hash-object", "diff"} -> "file_tree"
      [] site = "numstat" -> "churn"
      [] OTHER -> "survival"
Exit(site, st) ==
    /\ exits' = IF st = "nonzero" THEN exits \cup {site} ELSE exits
    /\ timeouts' = IF st = "timeout" THEN timeouts \cup {site} ELSE timeouts

Settle(a, r) ==
    /\ task' = [task EXCEPT ![a] = IF r.err = "none" THEN "ok" ELSE r.err]
    /\ res' = [res EXCEPT ![a] = r.val]

RunHotspots ==
    /\ task["hotspots"] = "running"
    /\ \E st \in GitStatuses :
         /\ Exit("name-only", st)
         /\ Settle("hotspots",
                   IF run_git_error(st) = "none"
                   THEN Ok(get_hotspots(NameOnlyOut(history)))
                   ELSE Raised(run_git_error(st)))
    /\ UNCHANGED <<inputs, pc, dir, cloneExit, sv, merged, pending, cleanups,
                   outcome, returned>>

\* Two git calls: hash-object for the empty tree, then the diff.
RunFileTree ==
    /\ task["file_tree"] = "running"
    /\ \E st1 \in GitStatuses, st2 \in GitStatuses :
         /\ IF run_git_error(st1) # "none" THEN Exit("hash-object", st1)
            ELSE Exit("diff", st2)
         /\ Settle("file_tree",
                   IF run_git_error(st1) # "none" THEN Raised(run_git_error(st1))
                   ELSE IF run_git_error(st2) # "none" THEN Raised(run_git_error(st2))
                   ELSE get_file_tree(diffOut))
    /\ UNCHANGED <<inputs, pc, dir, cloneExit, sv, merged, pending, cleanups,
                   outcome, returned>>

RunChurn ==
    /\ task["churn"] = "running"
    /\ \E st \in GitStatuses :
         /\ Exit("numstat", st)
         /\ Settle("churn",
                   IF run_git_error(st) = "none" THEN get_churn(churnOut)
                   ELSE Raised(run_git_error(st)))
    /\ UNCHANGED <<inputs, pc, dir, cloneExit, sv, merged, pending, cleanups,
                   outcome, returned>>

\* ---------------------------------------- get_survival_curves as a thread

ParsedLog == ParseCommits(commitOut, <<>>)
SvKeys == SelectedKeys(ParsedLog.val)
SvKey == SvKeys[sv.ci]
SvShas == CohortShas(ParsedLog.val, SvKey)
SvHead == HeadInstant(ParsedLog.val)
\* Faulty variant: the offset is not added to the end of the cohort.
SampleInstantNoOffset(k, weeks) == quarter_dates(k).cohort_end

SampleInstant(k, weeks) ==
    quarter_dates(k).cohort_end + weeks * DaysPerWeek * MinutesPerDay

SvRaise(e) ==
    /\ task' = [task EXCEPT !["survival"] = e]
    /\ sv' = [sv EXCEPT !.pc = "done"]
    /\ res' = res

SvReturn(curves) ==
    /\ task' = [task EXCEPT !["survival"] = "ok"]
    /\ sv' = [SvIdle EXCEPT !.pc = "done", !.curves = curves]
    /\ res' = [res EXCEPT !["survival"] = curves]

\* End of one iteration of `for cohort_key in sorted_keys`.
SvNextCohort(curves) ==
    IF sv.ci = Len(SvKeys) THEN SvReturn(curves)
    ELSE /\ sv' = [SvIdle EXCEPT !.pc = "numstat", !.ci = sv.ci + 1, !.curves = curves]
         /\ UNCHANGED <<task, res>>

\* The full history walk, its parse, the grouping by quarter.
SvLog ==
    /\ task["survival"] = "running" /\ sv.pc = "log"
    /\ \E st \in GitStatuses :
         /\ Exit("commit-log", st)
         /\ IF run_git_error(st) # "none" THEN SvRaise(run_git_error(st))
            ELSE IF ParsedLog.err # "none" THEN SvRaise(ParsedLog.err)
            ELSE IF ParsedLog.val = <<>> THEN SvReturn(<<>>)
            ELSE /\ sv' = [SvIdle EXCEPT !.pc = "numstat", !.ci = 1]
                 /\ UNCHANGED <<task, res>>
    /\ UNCHANGED <<inputs, pc, dir, cloneExit, merged, pending, cleanups,
                   outcome, returned>>

\* The quarter-bounded numstat of one cohort: a RuntimeError skips the cohort.
SvNumstat ==
    /\ task["survival"] = "running" /\ sv.pc = "numstat"
    /\ \E st \in GitStatuses, out \in cohortOuts :
         LET stat == CohortStat(out, [total_added |-> 0, files_changed |-> {}])
             e == run_git_error(st)
         IN  /\ Exit("cohort-numstat", st)
             /\ IF e = "RuntimeError" THEN SvNextCohort(sv.curves)
                ELSE IF e # "none" THEN SvRaise(e)
                ELSE IF stat.err # "none" THEN SvRaise(stat.err)
                ELSE IF stat.val.total_added = 0
                     THEN SvNextCohort(Append(sv.curves,
                              [cohort |-> SvKey, data |-> <<FirstSample>>]))
                ELSE /\ sv' = [sv EXCEPT !.pc = "sample",
                                         !.total_added = stat.val.total_added,
                                         !.files = stat.val.files_changed,
                                         !.weeks = FirstWeeks,
                                         !.data = <<FirstSample>>]
                     /\ UNCHANGED <<task, res>>
    /\ UNCHANGED <<inputs, pc, dir, cloneExit, merged, pending, cleanups,
                   outcome, returned>>

\* `for weeks in range(4, 53, 4)` is exhausted, or the sample date is past the
\* newest commit (break): the curve of the cohort is complete.
SvCurveDone ==
    /\ task["survival"] = "running" /\ sv.pc = "sample"
    /\ sv.weeks > LastWeeks \/ SampleInstant(SvKey, sv.weeks) > SvHead
    /\ SvNextCohort(Append(sv.curves, [cohort |-> SvKey, data |-> sv.data]))
    /\ UNCHANGED <<inputs, pc, dir, cloneExit, exits, timeouts, merged, pending, cleanups,
                   outcome, returned>>

\* The revision search of one offset: a RuntimeError, or no revision, skips
\* the offset.
SvRevList ==
    /\ task["survival"] = "running" /\ sv.pc = "sample"
    /\ sv.weeks <= LastWeeks /\ SampleInstant(SvKey, sv.weeks) <= SvHead
    /\ \E st \in GitStatuses, out \in RevListOuts :
         LET sample_rev == IF out = <<>> THEN <<>> ELSE Strip(out[1])
             e == run_git_error(st)
         IN  /\ Exit("rev-list", st)
             /\ IF e # "none" /\ e # "RuntimeError" THEN SvRaise(e)
                ELSE IF e = "RuntimeError" \/ sample_rev = <<>>
                     THEN /\ sv' = [sv EXCEPT !.weeks = @ + StepWeeks]
                          /\ UNCHANGED <<task, res>>
                ELSE /\ sv' = [sv EXCEPT !.pc = "blame", !.rev = sample_rev]
                     /\ UNCHANGED <<task, res>>
    /\ UNCHANGED <<inputs, pc, dir, cloneExit, merged, pending, cleanups,
                   outcome, returned>>

\* _count_surviving_lines over files_changed, then the sample is appended.  A
\* blame that times out or exits non-zero contributes nothing.
RECURSIVE SumOver(_, _)
SumOver(S, f) ==
    IF S = {} THEN 0
    ELSE LET x == CHOOSE y \in S : TRUE IN f[x] + SumOver(S \ {x}, f)

\* Faulty variant: the listing is tallied whatever the exit status.
count_surviving_lines_any(files, replies, cohort_shas) ==
    SumOver(files, [f \in files |-> BlameTally(replies[f].out, cohort_shas)])

count_surviving_lines(files, replies, cohort_shas) ==
    SumOver(files, [f \in files |->
        IF replies[f].st = "ok" THEN BlameTally(replies[f].out, cohort_shas) ELSE 0])

SvBlame ==
    /\ task["survival"] = "running" /\ sv.pc = "blame"
    /\ \E replies \in [sv.files -> BlameReplies] :
         /\ \A f \in sv.files : dir = "present" \/ replies[f].st = "nonzero"
         /\ LET surviving == count_surviving_lines(sv.files, replies, SvShas)
            IN  sv' = [sv EXCEPT !.pc = "sample",
                                 !.weeks = @ + StepWeeks,
                                 !.rev = <<>>,
                                 !.data = Append(@,
                                     [weeks_elapsed |-> sv.weeks,
                                      surviving_lines |->
                                          SurvivalRate(surviving, sv.total_added)])]
    /\ UNCHANGED <<inputs, pc, dir, cloneExit, exits, timeouts, task, res, merged, pending,
                   cleanups, outcome, returned>>

\* ------------------------------------------------------------ analyze_repo

\* Faulty variant: the exception of a task leaves analyze_repo without the cleanup.
GatherRaiseNoFinally ==
    /\ pc = "gather"
    /\ \E a \in Analyzers :
         /\ Failed(a)
         /\ outcome' = task[a]
    /\ pc' = "done"
    /\ UNCHANGED <<inputs, dir, cloneExit, exits, timeouts, task, res, sv, merged, pending,
                   cleanups, returned>>

\* Faulty variant: the exception of a task is dropped and what there is is returned.
GatherSwallow ==
    /\ pc = "gather"
    /\ \E a \in Analyzers : Failed(a)
    /\ pending' = "return"
    /\ pc' = "cleanup"
    /\ UNCHANGED <<inputs, dir, cloneExit, exits, timeouts, task, res, sv, merged, cleanups,
                   outcome, returned>>

\* asyncio.gather without return_exceptions: the first exception of a task is
\* raised in analyze_repo at once; the other threads are not stopped.
GatherRaise ==
    /\ pc = "gather"
    /\ \E a \in Analyzers :
         /\ Failed(a)
         /\ pending' = task[a]
    /\ pc' = "cleanup"
    /\ UNCHANGED <<inputs, dir, cloneExit, exits, timeouts, task, res, sv, merged, cleanups,
                   outcome, returned>>

\* gather has all four results: the merge loop writes churn into file_tree;
\* an exception raised while it runs leaves through the finally as well.
\* Faulty variant: the merge waits for the two lists it reads only.
MergeGuardEarly == task["file_tree"] = "ok" /\ task["churn"] = "ok"

MergeGuard == \A a \in Analyzers : task[a] = "ok"

Merge ==
    /\ pc = "gather"
    /\ MergeGuard
    /\ res' = [res EXCEPT !["file_tree"] = MergeChurn(res["file_tree"], res["churn"])]
    /\ merged' = TRUE
    /\ \E end \in {"return", "MemoryError"} : pending' = end
    /\ pc' = "cleanup"
    /\ UNCHANGED <<inputs, dir, cloneExit, exits, timeouts, task, sv, cleanups, outcome,
                   returned>>

\* finally: await asyncio.to_thread(cleanup_clone, clone_path), then the
\* return value or the exception reaches the caller.
ResultDict ==
    [hotspots |-> res["hotspots"], file_tree |-> res["file_tree"],
     survival_curves |-> res["survival"]]

Cleanup ==
    /\ pc = "cleanup"
    /\ dir' = cleanup_clone(dir).dir
    /\ cleanups' = cleanups + 1
    /\ pc' = "done"
    /\ outcome' = IF cleanup_clone(dir).err # "none" THEN cleanup_clone(dir).err
                  ELSE IF pending = "return" THEN "returned" ELSE pending
    /\ returned' = IF pending = "return" /\ cleanup_clone(dir).err = "none"
                   THEN ResultDict ELSE returned
    /\ UNCHANGED <<inputs, cloneExit, exits, timeouts, task, res, sv, merged, pending>>

\* ---------------------------------------------------------- specifications

Idle ==
    /\ cloneExit = "none"
    /\ exits = {}
    /\ timeouts = {}
    /\ task = [a \in Analyzers |-> "idle"]
    /\ res = NoResult
    /\ sv = SvIdle
    /\ merged = FALSE
    /\ pending = "none"
    /\ cleanups = 0
    /\ outcome = "none"
    /\ returned = NoDict

\* analyze_repo(repo_url) on one of the repositories.
Init ==
    /\ \E r \in Repos :
         /\ history = r.history
         /\ churnOut = r.churnOut
         /\ diffOut = r.diffOut
         /\ commitOut = r.commitOut
    /\ cohortOuts = CohortNumstatOuts
    /\ handler = HandlerIdle
    /\ Elsewhere
    /\ pc = "start"
    /\ dir = "none"
    /\ Idle

Next ==
    \/ Mkdtemp
    \/ CloneBare
    \/ RunHotspots
    \/ RunFileTree
    \/ RunChurn
    \/ SvLog
    \/ SvNumstat
    \/ SvCurveDone
    \/ SvRevList
    \/ SvBlame
    \/ GatherRaise
    \/ Merge
    \/ Cleanup

Spec == Init /\ [][Next]_vars

\* get_hotspots(bare_path) called on its own, on every history of the bound.
InitHotspots ==
    /\ history \in Histories
    /\ churnOut = <<>> /\ diffOut = <<>> /\ commitOut = <<>>
    /\ cohortOuts = {}
    /\ handler = HandlerIdle
    /\ Elsewhere
    /\ pc = "direct"
    /\ dir = "present"
    /\ cloneExit = "none"
    /\ exits = {}
    /\ timeouts = {}
    /\ task = [a \in Analyzers |-> IF a = "hotspots" THEN "running" ELSE "idle"]
    /\ res = NoResult
    /\ sv = SvIdle
    /\ merged = FALSE
    /\ pending = "none"
    /\ cleanups = 0
    /\ outcome = "none"
    /\ returned = NoDict

SpecHotspots == InitHotspots /\ [][RunHotspots]_vars

\* ------------------------------------------------------------------ claims

Cloned == cloneExit = "ok"
Finished == pc = "done"

\* C1: when clone_bare succeeded, analyze_repo has called cleanup_clone exactly
\* once by the time it returns or raises, on every exit path, and the
\* workspace directory is then gone; it is never called more than once.
C1_CleanupOnEveryExit ==
    /\ cleanups <= 1
    /\ (Cloned /\ ~Finished) => (cleanups = 0 /\ dir = "present")
    /\ (Cloned /\ Finished) =>
          (cleanups = 1 /\ dir = "absent" /\ outcome # "none")

\* An analyzer raised, analyze_repo has raised its exception, cleanup is done.
C1_Witness ==
    /\ Cloned /\ Finished /\ outcome = "ValueError"
    /\ cleanups = 1 /\ dir = "absent"

\* C2 (as claimed): cleanup_clone has run only when all four analyzers have
\* settled; the workspace is never removed under a running analyzer.
C2_CleanupAfterAllSettled ==
    cleanups > 0 => \A a \in Analyzers : Settled(a)

\* C3: when an analyzer has raised, analyze_repo does not return a dictionary:
\* it ends by raising, and nothing of the other analyzers is returned.
C3_NoPartialResult ==
    (\E a \in Analyzers : Failed(a)) =>
        /\ outcome # "returned"
        /\ returned = NoDict
        /\ Finished => outcome \in Errors

\* One analyzer failed, another returned its list, analyze_repo has raised.
C3_Witness ==
    /\ Finished /\ Failed("churn") /\ task["hotspots"] = "ok"
    /\ res["hotspots"] # <<>> /\ outcome \in Errors

\* C4: when the clone exits non-zero or times out, clone_bare raises, the
\* temporary directory is removed, and analyze_repo fails with no analyzer run.
C4_CloneFailure ==
    cloneExit \in {"nonzero", "timeout"} =>
        /\ dir = "absent"
        /\ outcome = (IF cloneExit = "nonzero" THEN "RuntimeError" ELSE "TimeoutExpired")
        /\ Finished
        /\ \A a \in Analyzers : task[a] = "idle"
        /\ returned = NoDict /\ cleanups = 0

\* The clone timed out: the directory is gone and analyze_repo has raised.
C4_Witness == cloneExit = "timeout" /\ dir = "absent" /\ outcome = "TimeoutExpired"

\* C5 (as claimed): a non-zero exit at any _run_git call site, those inside
\* get_survival_curves included, makes the enclosing analyzer fail.
C5_EveryNonzeroExitFatal ==
    \A site \in exits : task[Owner(site)] = "RuntimeError"

\* C5 (amended): a non-zero exit of the walks of get_hotspots, get_file_tree,
\* get_churn and of the commit listing of get_survival_curves makes that
\* analyzer fail and analyze_repo fail after cleanup; a non-zero exit of the
\* quarter-bounded numstat or of the revision search is caught: it is never
\* what get_survival_curves raises, and the cohort it skipped has no curve.
C5_FatalAndCaughtExits ==
    /\ \A site \in exits \cap FatalSites : task[Owner(site)] = "RuntimeError"
    /\ (exits \cap FatalSites # {} /\ Cloned /\ Finished) =>
          (outcome \in Errors /\ cleanups = 1 /\ returned = NoDict)
    /\ exits \subseteq CaughtSites => \A a \in Analyzers : task[a] # "RuntimeError"
    /\ (task["survival"] = "ok" /\ "cohort-numstat" \in exits) =>
          Len(res["survival"]) < Len(SvKeys)

\* The numstat of a cohort exited non-zero and get_survival_curves returned.
C5_Witness ==
    /\ "cohort-numstat" \in exits /\ task["survival"] = "ok"
    /\ "name-only" \in exits /\ Finished /\ outcome = "RuntimeError"

\* C6 (as claimed): no line shape makes an analyzer raise; the parsers skip
\* what they cannot read.
C6_MalformedLinesSkipped ==
    \A a \in Analyzers : task[a] # "ValueError"

\* C7: in the dictionary analyze_repo returns, the churn of a file_tree entry
\* is additions + deletions of the get_churn entry of the same path, 0 if none.
C7_ChurnMerged ==
    outcome = "returned" =>
        \A i \in 1..Len(returned.file_tree) :
            LET entry == returned.file_tree[i]
                hits == {j \in 1..Len(res["churn"]) : res["churn"][j].path = entry.path}
            IN  /\ hits = {} => entry.churn = 0
                /\ \A j \in hits :
                     entry.churn = res["churn"][j].additions + res["churn"][j].deletions

\* A returned file tree with a merged entry (deletions included) and an entry
\* that has no churn entry.
C7_Witness ==
    /\ outcome = "returned"
    /\ \E i, k \in 1..Len(returned.file_tree) :
         /\ returned.file_tree[i].churn = 6
         /\ returned.file_tree[k].path = P_README
         /\ returned.file_tree[k].churn = 0
         /\ IndexOfPath(res["churn"], P_README) = 0

\* C8: the merge loop has written file_tree only when all four analyzers had
\* completed.
C8_MergeAfterAll ==
    merged => \A a \in Analyzers : Settled(a)

\* The merge has written a churn and analyze_repo has returned.
C8_Witness ==
    /\ merged /\ outcome = "returned"
    /\ \E i \in 1..Len(returned.file_tree) : returned.file_tree[i].churn > 0

\* First line of the walk's output that names the path.
FirstSeen(path) ==
    LET lines == NameOnlyOut(history)
    IN  CHOOSE k \in 1..Len(lines) :
            /\ lines[k] = path
            /\ \A m \in 1..(k - 1) : lines[m] # path

Touching(path) == {k \in 1..Len(history) : path \in history[k]}

\* C9: the list get_hotspots returns is sorted non-increasing by change_count,
\* entries of equal change_count are in first-seen order, and there is exactly
\* one entry per path of the walk.
C9_HotspotsSorted ==
    task["hotspots"] = "ok" =>
        LET h == res["hotspots"]
        IN  /\ \A i, j \in 1..Len(h) :
                 i < j =>
                    /\ h[i].change_count >= h[j].change_count
                    /\ h[i].path # h[j].path
                    /\ h[i].change_count = h[j].change_count =>
                          FirstSeen(h[i].path) < FirstSeen(h[j].path)
            /\ {h[i].path : i \in 1..Len(h)} = {p \in Paths : Touching(p) # {}}

\* Three entries: a tie that is not in path order behind a larger count.
C9_Witness ==
    /\ task["hotspots"] = "ok" /\ Len(res["hotspots"]) = 3
    /\ res["hotspots"][1].change_count = 2
    /\ res["hotspots"][2].path = P_UTILS /\ res["hotspots"][2].change_count = 1
    /\ res["hotspots"][3].path = P_README /\ res["hotspots"][3].change_count = 1

RECURSIVE SumCounts(_)
SumCounts(h) == IF h = <<>> THEN 0 ELSE Head(h).change_count + SumCounts(Tail(h))

\* C10: the change_count of a path is the number of commits of the walk that
\* touched it; when every commit touches exactly one file, the counts add up
\* to the number of commits.
C10_HotspotCounts ==
    task["hotspots"] = "ok" =>
        LET h == res["hotspots"]
        IN  /\ \A i \in 1..Len(h) :
                 h[i].change_count = Cardinality(Touching(h[i].path))
            /\ \A p \in Paths :
                 Touching(p) # {} => \E i \in 1..Len(h) : h[i].path = p
            /\ (\A k \in 1..Len(history) : Cardinality(history[k]) = 1) =>
                  SumCounts(h) = Len(history)

\* Two commits of one file each, on the same file: one entry, counted twice.
C10_Witness ==
    /\ task["hotspots"] = "ok" /\ Len(history) = 2
    /\ \A k \in 1..Len(history) : Cardinality(history[k]) = 1
    /\ Len(res["hotspots"]) = 1 /\ res["hotspots"][1].change_count = 2

\* ------------------------------- get_churn and get_file_tree called directly

\* What a commit did to one file: it wrote binary content, or it wrote `added`
\* lines over `deleted` old ones.
Stats ==
    { [binary |-> TRUE, added |-> 0, deleted |-> 0],
      [binary |-> FALSE, added |-> 3, deleted |-> 0],
      [binary |-> FALSE, added |-> 10, deleted |-> 3] }
StatPaths == {P_LOGO, P_MAIN}
StatCommits == UNION {[S -> Stats] : S \in (SUBSET StatPaths) \ {{}}}
StatHistories == UNION {[1..n -> StatCommits] : n \in 0..MaxCommits}

\* A count as git prints it, in decimal.
RECURSIVE Decimal(_)
Decimal(n) ==
    LET last == CHOOSE c \in Digits : DigitVal(c) = n % 10
    IN  IF n < 10 THEN <<last>> ELSE Append(Decimal(n \div 10), last)

\* One numstat line: both counts, or the placeholder "-" twice.
StatLine(s, p) ==
    IF s.binary THEN NumstatLine(<<"-">>, <<"-">>, p)
    ELSE NumstatLine(Decimal(s.added), Decimal(s.deleted), p)

\* stdout of `git log --numstat --format=`: newest commit first, per commit one
\* line for each file it touched, in path order, then an empty line.
RECURSIVE NumstatOut(_)
NumstatOut(h) ==
    IF h = <<>> THEN <<>>
    ELSE LET c == Head(h)
             touched == SelectSeq(<<P_LOGO, P_MAIN>>, LAMBDA p : p \in DOMAIN c)
         IN  [i \in 1..Len(touched) |-> StatLine(c[touched[i]], touched[i])]
               \o << <<>> >> \o NumstatOut(Tail(h))

\* The commits of the walk (1 = newest) that touched a path.
StatTouching(p) == {k \in 1..Len(history) : p \in DOMAIN history[k]}

\* The file at head is what the newest commit touching it wrote.
HeadStat(h, p) ==
    h[CHOOSE k \in 1..Len(h) :
          /\ p \in DOMAIN h[k]
          /\ \A m \in 1..(k - 1) : p \notin DOMAIN h[m]][p]

\* stdout of `git diff --numstat <empty tree> HEAD`: one line per file at head,
\* every line of the file counted as added.
DiffOut(h) ==
    LET present == SelectSeq(<<P_LOGO, P_MAIN>>,
                       LAMBDA p : \E k \in 1..Len(h) : p \in DOMAIN h[k])
    IN  [i \in 1..Len(present) |->
            StatLine([HeadStat(h, present[i]) EXCEPT !.deleted = 0], present[i])]

InitStats ==
    /\ history \in StatHistories
    /\ churnOut = NumstatOut(history)
    /\ diffOut = DiffOut(history)
    /\ commitOut = <<>>
    /\ cohortOuts = {}
    /\ handler = HandlerIdle
    /\ Elsewhere
    /\ pc = "direct"
    /\ dir = "present"
    /\ cloneExit = "none"
    /\ exits = {}
    /\ timeouts = {}
    /\ task = [a \in Analyzers |->
                 IF a \in {"churn", "file_tree"} THEN "running" ELSE "idle"]
    /\ res = NoResult
    /\ sv = SvIdle
    /\ merged = FALSE
    /\ pending = "none"
    /\ cleanups = 0
    /\ outcome = "none"
    /\ returned = NoDict

SpecStats == InitStats /\ [][RunChurn \/ RunFileTree]_vars

\* C11: for every path, get_churn reports the sums of the added and deleted
\* counts of the path over all commits of the history, a binary placeholder
\* adding 0 to both, in exactly one entry per distinct path.
C11_ChurnSums ==
    task["churn"] = "ok" =>
        LET c == res["churn"]
        IN  /\ \A i, j \in 1..Len(c) : i # j => c[i].path # c[j].path
            /\ {c[i].path : i \in 1..Len(c)} =
                   {p \in StatPaths : StatTouching(p) # {}}
            /\ \A i \in 1..Len(c) :
                 LET T == StatTouching(c[i].path)
                     text == {k \in T : ~history[k][c[i].path].binary}
                 IN  /\ c[i].additions =
                           SumOver(text, [k \in text |-> history[k][c[i].path].added])
                     /\ c[i].deletions =
                           SumOver(text, [k \in text |-> history[k][c[i].path].deleted])

\* One path written twice as text (10 + 3 added, 3 deleted) and a binary file
\* whose only commit is the placeholder.
C11_Witness ==
    /\ task["churn"] = "ok" /\ Len(history) = 2 /\ Len(res["churn"]) = 2
    /\ \E i \in 1..2 :
         /\ res["churn"][i].path = P_MAIN
         /\ res["churn"][i].additions = 13 /\ res["churn"][i].deletions = 3
    /\ \E i \in 1..2 :
         /\ res["churn"][i].path = P_LOGO
         /\ \A k \in StatTouching(P_LOGO) : history[k][P_LOGO].binary
         /\ res["churn"][i].additions = 0 /\ res["churn"][i].deletions = 0

\* C12: the list get_churn returns is sorted non-increasing by
\* additions + deletions, for every history.
C12_ChurnSorted ==
    task["churn"] = "ok" =>
        \A i, j \in 1..Len(res["churn"]) :
            i < j => res["churn"][i].additions + res["churn"][i].deletions
                       >= res["churn"][j].additions + res["churn"][j].deletions

\* The newest commit lists logo.png (3 lines) before src/main.py (13 lines):
\* the sort has moved src/main.py to the front.
C12_Witness ==
    /\ task["churn"] = "ok" /\ Len(res["churn"]) = 2
    /\ Len(history) >= 1 /\ DOMAIN history[1] = StatPaths
    /\ res["churn"][1].path = P_MAIN
    /\ res["churn"][1].additions + res["churn"][1].deletions = 13
    /\ res["churn"][2].path = P_LOGO
    /\ res["churn"][2].additions + res["churn"][2].deletions = 3

\* C13: get_file_tree returns one entry per file present at head; its loc is
\* the added-line count of the file in the diff of the empty tree against head
\* (n for a file of n lines, 0 for a file reported with the binary
\* placeholder) and its churn is 0.
C13_FileTreeLoc ==
    task["file_tree"] = "ok" =>
        LET t == res["file_tree"]
        IN  /\ \A i, j \in 1..Len(t) : i # j => t[i].path # t[j].path
            /\ {t[i].path : i \in 1..Len(t)} =
                   {p \in StatPaths : StatTouching(p) # {}}
            /\ \A i \in 1..Len(t) :
                 /\ t[i].loc = IF HeadStat(history, t[i].path).binary THEN 0
                               ELSE HeadStat(history, t[i].path).added
                 /\ t[i].churn = 0

\* A binary file and a file of 10 lines at head, the latter written over an
\* older version of 3 lines.
C13_Witness ==
    /\ task["file_tree"] = "ok" /\ Len(res["file_tree"]) = 2
    /\ Len(history) = 2 /\ P_MAIN \in DOMAIN history[2]
    /\ \E i \in 1..2 :
         /\ res["file_tree"][i].path = P_LOGO
         /\ HeadStat(history, P_LOGO).binary /\ res["file_tree"][i].loc = 0
    /\ \E i \in 1..2 :
         /\ res["file_tree"][i].path = P_MAIN
         /\ history[2][P_MAIN].added = 3 /\ res["file_tree"][i].loc = 10

\* ------------------------------------- get_survival_curves called directly

\* The author date of a commit made at noon UTC on the 10th of a month.
TenthOf(year, month) ==
    IsoDate(Decimal(year),
            IF month < 10 THEN <<"0">> \o Decimal(month) ELSE Decimal(month),
            <<"1", "0">>, "T12:00:00", "+00:00")

\* stdout of `git log --format="%H %aI"` for one commit in each of n
\* consecutive quarters from 2022-Q1 on, newest first.
QuarterShas ==
    <<"sha_q1", "sha_q2", "sha_q3", "sha_q4", "sha_q5", "sha_q6", "sha_q7",
      "sha_q8", "sha_q9", "sha_q10">>
QuarterLog(n) ==
    [i \in 1..n |->
        CommitLine(QuarterShas[n + 1 - i],
                   TenthOf(2022 + ((n - i) \div 4), 3 * ((n - i) % 4) + 2))]

\* The repositories get_survival_curves is run on: the commit listing, and
\* what the quarter-bounded numstat can answer.
\* No commits; the fixture; a head 14 weeks after the end of a quarter that
\* holds two commits.
S_RECENT ==
    { [commitOut |-> log, cohortOuts |-> CohortNumstatOuts] :
        log \in { <<>>,
                  R_FIXTURE.commitOut,
                  << CommitLine("sha_b", TenthOf(2024, 7)),
                     CommitLine("sha_c", TenthOf(2024, 3)),
                     CommitLine("sha_a", D_FEB10) >> } }
\* A quarter that ended more than 52 weeks before head, all of its lines
\* rewritten since.
S_OLD ==
    [commitOut |-> << CommitLine("sha_a", D_MAY20),
                      CommitLine("sha_c", TenthOf(2023, 2)) >>,
     cohortOuts |-> { << NumstatLine(<<"3">>, <<"0">>, P_MAIN) >> }]
\* A quarter whose two commits are blamed for two lines of a file (or for none,
\* when the blame fails) while the quarter-bounded numstat reports one added
\* line.
S_BLAMED ==
    [commitOut |-> << CommitLine("sha_c", D_MAY20),
                      CommitLine("sha_b", TenthOf(2024, 3)),
                      CommitLine("sha_a", D_FEB10) >>,
     cohortOuts |-> { << NumstatLine(<<"1">>, <<"0">>, P_MAIN) >> }]
\* 7 to 10 quarters with a commit each, none of which added a line of text.
S_QUARTERS ==
    { [commitOut |-> QuarterLog(n),
       cohortOuts |-> { <<>>, << NumstatLine(<<"-">>, <<"-">>, P_LOGO) >> }] :
        n \in {7, 8, 9, 10} }
SurvivalRepos == S_RECENT \cup {S_OLD, S_BLAMED} \cup S_QUARTERS

InitSurvival ==
    /\ \E r \in SurvivalRepos :
         /\ commitOut = r.commitOut
         /\ cohortOuts = r.cohortOuts
    /\ history = <<>> /\ churnOut = <<>> /\ diffOut = <<>>
    /\ handler = HandlerIdle
    /\ Elsewhere
    /\ pc = "direct"
    /\ dir = "present"
    /\ cloneExit = "none"
    /\ exits = {}
    /\ timeouts = {}
    /\ task = [a \in Analyzers |-> IF a = "survival" THEN "running" ELSE "idle"]
    /\ res = NoResult
    /\ sv = SvIdle
    /\ merged = FALSE
    /\ pending = "none"
    /\ cleanups = 0
    /\ outcome = "none"
    /\ returned = NoDict

SpecSurvival ==
    InitSurvival /\ [][SvLog \/ SvNumstat \/ SvCurveDone \/ SvRevList \/ SvBlame]_vars

\* The curves get_survival_curves returned.
Curves == res["survival"]

\* C14: every curve get_survival_curves returns has a non-empty sample
\* sequence whose first sample is (weeks_elapsed = 0, surviving_lines = 1.0).
C14_FirstSampleIsOne ==
    task["survival"] = "ok" =>
        \A i \in 1..Len(Curves) :
            /\ Curves[i].data # <<>>
            /\ Curves[i].data[1].weeks_elapsed = 0
            /\ Curves[i].data[1].surviving_lines = RateScale

\* Two curves: one that goes on with a sample below 1.0, one of the first
\* sample alone.
C14_Witness ==
    /\ task["survival"] = "ok" /\ Len(Curves) = 2
    /\ Len(Curves[1].data) > 1 /\ Curves[1].data[2].surviving_lines < RateScale
    /\ Len(Curves[2].data) = 1

\* C15: every sample of every survival curve has surviving_lines in [0, 1],
\* also when the blame attributes more lines to the commits of the cohort
\* than the quarter-bounded numstat counted as added.
C15_RateInUnitInterval ==
    task["survival"] = "ok" =>
        \A i \in 1..Len(Curves) :
            \A j \in 1..Len(Curves[i].data) :
                /\ Curves[i].data[j].surviving_lines >= 0
                /\ Curves[i].data[j].surviving_lines <= RateScale

\* One added line and a blame that names the cohort twice: the sample at
\* week 4 is 1.0.
C15_Witness ==
    /\ task["survival"] = "ok" /\ cohortOuts = S_BLAMED.cohortOuts
    /\ Len(Curves) = 2 /\ Len(Curves[1].data) = 2
    /\ Curves[1].data[2].weeks_elapsed = 4
    /\ Curves[1].data[2].surviving_lines = RateScale

\* C16: in every survival curve the samples are strictly increasing in
\* weeks_elapsed and every weeks_elapsed is one of 0, 4, 8, ..., 52, whatever
\* offsets were skipped, revision searches failed or truncation occurred.
C16_WeeksIncreasing ==
    task["survival"] = "ok" =>
        \A i \in 1..Len(Curves) :
            LET data == Curves[i].data
            IN  /\ \A j \in 1..Len(data) :
                     data[j].weeks_elapsed \in {4 * k : k \in 0..13}
                /\ \A j, k \in 1..Len(data) :
                     j < k => data[j].weeks_elapsed < data[k].weeks_elapsed

\* A curve that skipped week 4, sampled week 8, skipped on to week 52 and
\* sampled it; and a curve cut short by the date of the newest commit.
C16_Witness ==
    /\ task["survival"] = "ok" /\ exits = {"rev-list"} /\ Len(Curves) = 2
    /\ [j \in 1..Len(Curves[1].data) |-> Curves[1].data[j].weeks_elapsed]
          = <<0, 8, 52>>
    /\ Len(Curves[2].data) = 1

\* The cohort keys present in a commit list, and the 8 greatest of a set of
\* keys.
KeysPresent(commits) == {CohortKey(commits[i].dt) : i \in 1..Len(commits)}
GreatestKeys(keys) ==
    {k \in keys :
        Cardinality({o \in keys : KeyRank(o) > KeyRank(k)}) < MaxCohorts}

\* C17: get_survival_curves produces curves only for the 8 greatest cohort
\* keys present in the history (all keys when there are fewer than 8), in
\* ascending key order and with no key repeated; when no quarter-bounded
\* numstat exited non-zero there is a curve for each of these keys; a history
\* without commits gives no curves.
C17_LastEightCohorts ==
    task["survival"] = "ok" =>
        LET commits == ParsedLog.val
            greatest == GreatestKeys(KeysPresent(commits))
        IN  /\ \A i \in 1..Len(Curves) : Curves[i].cohort \in greatest
            /\ \A i, j \in 1..Len(Curves) :
                 i < j => KeyRank(Curves[i].cohort) < KeyRank(Curves[j].cohort)
            /\ "cohort-numstat" \notin exits =>
                   {Curves[i].cohort : i \in 1..Len(Curves)} = greatest
            /\ commitOut = <<>> => Curves = <<>>

\* Ten quarters from 2022-Q1 to 2024-Q2: eight curves, 2022-Q3 to 2024-Q2.
C17_Witness ==
    /\ task["survival"] = "ok"
    /\ Cardinality(KeysPresent(ParsedLog.val)) = 10
    /\ Len(Curves) = 8
    /\ Curves[1].cohort = [year |-> 2022, q |-> 3]
    /\ Curves[8].cohort = [year |-> 2024, q |-> 2]

\* ------------------------------------------- cleanup_clone called directly

\* A caller that holds a path, which exists or was never created, and calls
\* get_hotspots and cleanup_clone on it, the latter up to MaxCleanups times.
MaxCleanups == 2

CleanupClone ==
    /\ pc = "direct" /\ cleanups < MaxCleanups
    /\ dir' = cleanup_clone(dir).dir
    /\ outcome' = IF cleanup_clone(dir).err = "none" THEN "returned"
                  ELSE cleanup_clone(dir).err
    /\ cleanups' = cleanups + 1
    /\ UNCHANGED <<inputs, pc, cloneExit, exits, timeouts, task, res, sv, merged, pending,
                   returned>>

InitCleanup ==
    /\ history \in Histories
    /\ churnOut = <<>> /\ diffOut = <<>> /\ commitOut = <<>>
    /\ cohortOuts = {}
    /\ handler = HandlerIdle
    /\ Elsewhere
    /\ pc = "direct"
    /\ dir \in {"none", "present"}
    /\ cloneExit = "none"
    /\ exits = {}
    /\ timeouts = {}
    /\ task = [a \in Analyzers |-> IF a = "hotspots" THEN "running" ELSE "idle"]
    /\ res = NoResult
    /\ sv = SvIdle
    /\ merged = FALSE
    /\ pending = "none"
    /\ cleanups = 0
    /\ outcome = "none"
    /\ returned = NoDict

SpecCleanup == InitCleanup /\ [][CleanupClone \/ RunHotspots]_vars

\* C19: cleanup_clone called on a path that does not exist (never created, or
\* removed by an earlier cleanup_clone) returns without raising and leaves
\* the path absent.
C19_CleanupIdempotent ==
    [][(cleanups' = cleanups + 1 /\ dir \in {"none", "absent"})
          => (outcome' = "returned" /\ dir' = "absent")]_vars

\* The second of two calls has returned: it was made on the removed path.
C19_Witness ==
    cleanups = 2 /\ dir = "absent" /\ outcome = "returned"

\* ------------------------------------------------ app.py: GET /api/analyze

\* The repo parameter of a request, "/" being a token of its own.
RequestRepos ==
    { <<"owner", "/", "repo">>, <<"octo.cat", "/", "hello-world">>,
      <<"invalid-no-slash">>, <<"a", "/", "b", "/", "c">>, <<"owner", "/">>,
      <<"owner", "/", "repo", LF>>, <<"owner", LF, "/", "repo">> }

\* owner/repo: two runs of the characters a-z, A-Z, 0-9, ".", "_", "-" with
\* one "/" between them.
OwnerRepoForm(repo) ==
    /\ Len(Split(repo, "/")) = 2
    /\ \A i \in 1..2 : Split(repo, "/")[i] # <<>>
    /\ \A i \in 1..Len(repo) : repo[i] \notin Whitespace \cup {LF}

\* re.match of ^[a-zA-Z0-9._-]+/[a-zA-Z0-9._-]+$ : "$" matches at the end of
\* the text and also before a line feed that ends it.
REPO_PATTERN(repo) ==
    \/ OwnerRepoForm(repo)
    \/ /\ Len(repo) > 1
       /\ repo[Len(repo)] = LF
       /\ OwnerRepoForm(SubSeq(repo, 1, Len(repo) - 1))

\* repo_meta.get("pushed_at", "unknown")
PushedAts == {"2025-01-15T10:00:00Z", "unknown"}

\* How a call of the GitHub client ends: a result, an HTTPStatusError of
\* status 404 or 500, another httpx.HTTPError, or TimeoutError.
GitHubReplies == {"ok", "404", "500", "transport", "timeout"}

\* The except clauses of the handler.
GitHubError(reply) == IF reply = "404" THEN "404" ELSE "502"

git_analyzer == <<history, churnOut, diffOut, commitOut, cohortOuts, blame, limiter, ws, fetch, disk, pc, dir,
                  cloneExit, exits, timeouts, task, res, sv, merged, pending, cleanups,
                  outcome, returned>>

AnalyzeValidate ==
    /\ handler.pc = "start"
    /\ handler' = IF REPO_PATTERN(handler.repo)
                  THEN [handler EXCEPT !.pc = "get_repo"]
                  ELSE [handler EXCEPT !.pc = "done", !.status = "400"]
    /\ UNCHANGED git_analyzer

\* client.get_repo(owner, repo_name).  A path that holds a line feed is
\* refused by httpx with InvalidURL, which is no httpx.HTTPError, or is sent
\* percent-encoded and not found, depending on the httpx release.
AnalyzeGetRepo ==
    /\ handler.pc = "get_repo"
    /\ \E reply \in GitHubReplies \cup {"InvalidURL"}, pushed_at \in PushedAts :
         /\ IF \E i \in 1..Len(handler.repo) : handler.repo[i] = LF
            THEN reply \in {"InvalidURL", "404"}
            ELSE reply # "InvalidURL"
         /\ handler' =
              CASE reply = "ok" ->
                     [handler EXCEPT !.pc = "cache_get", !.head_sha = pushed_at,
                                     !.requests = @ + 1]
                [] reply = "InvalidURL" ->
                     [handler EXCEPT !.pc = "done", !.status = "500",
                                     !.raised = "InvalidURL"]
                [] OTHER ->
                     [handler EXCEPT !.pc = "done", !.requests = @ + 1,
                                     !.reply = reply,
                                     !.status = GitHubError(reply)]
    /\ UNCHANGED git_analyzer

\* Faulty variant: the cached entry is not looked at.
CacheHitNever(cache, repo, head_sha) == FALSE

\* cached = cache.get(repo, head_sha); if cached is not None
CacheHit(cache, repo, head_sha) == <<repo, head_sha>> \in cache

\* cache.get(repo, head_sha): a hit is returned as it is.
AnalyzeCacheGet ==
    /\ handler.pc = "cache_get"
    /\ handler' = IF CacheHit(handler.cache, handler.repo, handler.head_sha)
                  THEN [handler EXCEPT !.pc = "done", !.status = "200",
                                       !.body = "cached"]
                  ELSE [handler EXCEPT !.pc = "stats"]
    /\ UNCHANGED git_analyzer

\* The gather of the six statistics calls; then the git analysis when the
\* analyzers were imported, empty lists otherwise.
AnalyzeStats ==
    /\ handler.pc = "stats"
    /\ \E reply \in GitHubReplies :
         handler' =
           IF reply # "ok"
           THEN [handler EXCEPT !.pc = "done", !.requests = @ + 6,
                                !.reply = reply, !.status = GitHubError(reply)]
           ELSE IF handler.analyzers = "imported"
           THEN [handler EXCEPT !.pc = "git", !.stage = "git", !.requests = @ + 6]
           ELSE [handler EXCEPT !.pc = "result", !.requests = @ + 6]
    /\ UNCHANGED git_analyzer

\* The result is built, written to the cache and returned.
AnalyzeRespond ==
    /\ handler.pc = "result"
    /\ handler' = [handler EXCEPT
           !.pc = "done", !.status = "200", !.body = "result",
           !.cache = @ \cup {<<handler.repo, handler.head_sha>>},
           !.sets = @ + 1]
    /\ UNCHANGED git_analyzer

\* The arguments of asyncio.gather(get_hotspots(repo_url), ...) are evaluated
\* one after the other in the handler: get_hotspots runs git with the URL as
\* its directory, no clone having been made.  Its exception is none of those
\* the handler catches, so the request ends as an internal server error; were
\* the analyzers to return, gather would raise TypeError over their lists.
AnalyzeGit ==
    /\ handler.pc = "git"
    /\ \E st \in GitStatuses :
         LET r == IF run_git_error(st) = "none"
                  THEN Ok(get_hotspots(NameOnlyOut(history)))
                  ELSE Raised(run_git_error(st))
         IN  /\ Exit("name-only", st)
             /\ Settle("hotspots", r)
             /\ handler' = [handler EXCEPT
                    !.pc = "done", !.status = "500",
                    !.raised = IF r.err = "none" THEN "TypeError" ELSE r.err]
    /\ UNCHANGED <<history, churnOut, diffOut, commitOut, cohortOuts, blame, limiter, ws, fetch, disk,
                   pc, dir, cloneExit, sv, merged, pending, cleanups, outcome,
                   returned>>

\* One request, the cache holding fresh entries for some keys; the analyzers
\* were imported when the application started, or could not be.
InitAnalyze ==
    /\ \E repo \in RequestRepos, analyzers \in {"imported", "missing"},
          cache \in SUBSET ({r \in RequestRepos : OwnerRepoForm(r)} \X PushedAts) :
         handler = [HandlerIdle EXCEPT !.repo = repo, !.cache = cache,
                                       !.held = cache, !.analyzers = analyzers]
    /\ Elsewhere
    /\ history = R_FIXTURE.history
    /\ churnOut = R_FIXTURE.churnOut
    /\ diffOut = R_FIXTURE.diffOut
    /\ commitOut = R_FIXTURE.commitOut
    /\ cohortOuts = CohortNumstatOuts
    /\ pc = "start"
    /\ dir = "none"
    /\ Idle

NextAnalyze ==
    \/ AnalyzeValidate
    \/ AnalyzeGetRepo
    \/ AnalyzeCacheGet
    \/ AnalyzeStats
    \/ AnalyzeGit
    \/ AnalyzeRespond

SpecAnalyze == InitAnalyze /\ [][NextAnalyze]_vars

\* C20: a request that passes validation, misses the cache and has its
\* statistics ends with analyze_repo having been run once, its failure
\* surfaced as an error response and its result as a 200 response.
C20_OrchestratorInvokedOnce ==
    (handler.pc = "done" /\ handler.stage = "git") =>
        /\ pc = "done"
        /\ outcome = "returned" => handler.status = "200"
        /\ outcome \in Errors => handler.status \notin {"none", "200"}

\* ------------------------------------- analyze_repo: two runs side by side

Runs == {1, 2}
\* The names mkdtemp(prefix="gitpulse-") can come up with, and the locations
\* the runs are asked to analyse.
TmpNames == {"gitpulse-a", "gitpulse-b", "gitpulse-c", "gitpulse-d"}
WsUrls == {"url_1", "url_2"}

\* Faulty variant: one workspace name for every run.
mkdtemp_shared(dirs) == {"gitpulse-a"}

\* tempfile.mkdtemp creates a directory that did not exist before the call.
mkdtemp(dirs) == TmpNames \ dirs

\* The runs that hold a workspace: from mkdtemp until their own rmtree.
WsUsing == {r \in Runs : ws.run[r].pc \in {"clone", "gather", "cleanup"}}

WsOthers == <<history, churnOut, diffOut, commitOut, cohortOuts, blame, limiter, handler, fetch,
              disk, pc, dir, cloneExit, exits, timeouts, task, res, sv, merged, pending,
              cleanups, outcome, returned>>

\* clone_bare, first line.
WsMkdtemp ==
    /\ \E r \in Runs, d \in mkdtemp(ws.dirs) :
         /\ ws.run[r].pc = "start"
         /\ ws' = [ws EXCEPT !.dirs = @ \cup {d},
                             !.run[r].pc = "clone",
                             !.run[r].clone_path = d]
    /\ UNCHANGED WsOthers

\* clone_bare, the git clone: a failure removes tmp_dir and is raised to the
\* caller of analyze_repo, the try block not having been entered.
WsCloneBare ==
    /\ \E r \in Runs, st \in {"ok", "nonzero", "timeout"} :
         /\ ws.run[r].pc = "clone"
         /\ ws' = IF clone_bare(st).err = "none"
                  THEN [ws EXCEPT !.run[r].pc = "gather"]
                  ELSE [ws EXCEPT !.dirs = @ \ {ws.run[r].clone_path},
                                  !.run[r].pc = "done",
                                  !.run[r].beside = WsUsing \ {r}]
    /\ UNCHANGED WsOthers

\* The try block: the analyzers read clone_path; found tells whether it was
\* there for them.
WsGather ==
    /\ \E r \in Runs :
         /\ ws.run[r].pc = "gather"
         /\ ws' = [ws EXCEPT !.run[r].pc = "cleanup",
                             !.run[r].found = ws.run[r].clone_path \in ws.dirs]
    /\ UNCHANGED WsOthers

\* The finally clause: cleanup_clone(clone_path).
WsCleanup ==
    /\ \E r \in Runs :
         /\ ws.run[r].pc = "cleanup"
         /\ ws' = [ws EXCEPT !.dirs = @ \ {ws.run[r].clone_path},
                             !.run[r].pc = "done",
                             !.run[r].beside = WsUsing \ {r}]
    /\ UNCHANGED WsOthers

\* Two calls of analyze_repo, directories of other processes lying about.
InitWorkspaces ==
    /\ \E urls \in [Runs -> WsUrls],
          others \in {D \in SUBSET TmpNames : Cardinality(D) <= 2} :
         ws = [dirs |-> others,
               run |-> [r \in Runs |->
                          [pc |-> "start", repo_url |-> urls[r],
                           clone_path |-> "none", found |-> TRUE,
                           beside |-> {}]]]
    /\ history = <<>>
    /\ churnOut = <<>>
    /\ diffOut = <<>>
    /\ commitOut = <<>>
    /\ cohortOuts = {}
    /\ handler = HandlerIdle
    /\ fetch = FetchIdle
    /\ disk = DiskIdle
    /\ blame = BlameIdle
    /\ limiter = LimiterIdle
    /\ pc = "direct"
    /\ dir = "none"
    /\ Idle

SpecWorkspaces ==
    InitWorkspaces /\ [][WsMkdtemp \/ WsCloneBare \/ WsGather \/ WsCleanup]_vars

\* C21: two runs that hold a workspace at the same time hold different
\* directories, and a run's directory exists for as long as the run holds
\* it, whatever the other run removes: its analyzers find it.
C21_WorkspaceExclusive ==
    /\ \A r \in WsUsing : ws.run[r].clone_path \in ws.dirs
    /\ \A r \in Runs : ws.run[r].found
    /\ \A r1 \in WsUsing, r2 \in WsUsing :
         r1 # r2 => ws.run[r1].clone_path # ws.run[r2].clone_path

\* Run 1 has removed its workspace while run 2, analysing the same location,
\* was in its try block, and run 2 is still there.
C21_Witness ==
    /\ ws.run # <<>>
    /\ ws.run[1].pc = "done"
    /\ ws.run[2].pc = "gather"
    /\ 2 \in ws.run[1].beside
    /\ ws.run[1].repo_url = ws.run[2].repo_url

\* ------------------------------------ github_client.py: fetch_with_retry

\* Faulty variant: one more turn of the loop.
MaxAttemptsSix == 5 + 1

\* for attempt in range(5)
MaxAttempts == 5

\* What self._client.get can come back with: a response of some status and
\* some rate-limit headers, or a transport error raised by httpx.
Statuses == {200, 202, 204, 301, 404, 500}

\* response.headers: name and value pairs.  GitHub's X-RateLimit-Remaining
\* absent, ample, low and zero; X-RateLimit-Reset absent, before and after the
\* time the call starts at.
Headers ==
    { {},
      {<<"X-RateLimit-Remaining", <<"4", "9", "9", "9">>>>, <<"X-RateLimit-Reset", <<"9">>>>},
      {<<"X-RateLimit-Remaining", <<"9">>>>, <<"X-RateLimit-Reset", <<"9">>>>},
      {<<"X-RateLimit-Remaining", <<"0">>>>},
      {<<"X-RateLimit-Remaining", <<"0">>>>, <<"X-RateLimit-Reset", <<"3">>>>},
      {<<"X-RateLimit-Remaining", <<"0">>>>, <<"X-RateLimit-Reset", <<"9">>>>} }

\* time.time() when fetch_with_retry is called.
FetchStart == 5

\* response.headers.get(name) and response.headers.get(name, default)
HasHeader(headers, name) == \E h \in headers : h[1] = name
GetHeader(headers, name, default) ==
    IF HasHeader(headers, name)
    THEN (CHOOSE h \in headers : h[1] = name)[2]
    ELSE default

\* max(a, b)
Max(a, b) == IF a >= b THEN a ELSE b

\* Faulty variant: the sleep starts at the warning threshold.
check_rate_limit_low(headers, now) ==
    IF ~HasHeader(headers, "X-RateLimit-Remaining") THEN <<>>
    ELSE LET remaining_int == ToInt(GetHeader(headers, "X-RateLimit-Remaining", <<>>))
         IN  IF remaining_int < 10
             THEN <<Max(ToInt(GetHeader(headers, "X-RateLimit-Reset", <<"0">>)) - now, 0)>>
             ELSE <<>>

\* _check_rate_limit(response) at time now: the argument of its asyncio.sleep
\* call as a one-element sequence, the empty sequence when it makes none.
check_rate_limit(headers, now) ==
    IF ~HasHeader(headers, "X-RateLimit-Remaining") THEN <<>>
    ELSE LET remaining_int == ToInt(GetHeader(headers, "X-RateLimit-Remaining", <<>>))
         IN  IF remaining_int = 0
             THEN LET reset_ts == ToInt(GetHeader(headers, "X-RateLimit-Reset", <<"0">>))
                      sleep_time == Max(reset_ts - now, 0)
                  IN  <<sleep_time>>
             ELSE <<>>

\* The seconds a sequence of asyncio.sleep arguments takes.
RECURSIVE Slept(_)
Slept(ds) == IF ds = <<>> THEN 0 ELSE Head(ds) + Slept(Tail(ds))

\* response.raise_for_status(): nothing for a 2xx response, HTTPStatusError
\* for 4xx and 5xx; what a 3xx response gives depends on the httpx release.
raise_for_status(status) ==
    CASE status \in 200..299 -> {"none"}
      [] status \in 300..399 -> {"none", "HTTPStatusError"}
      [] OTHER -> {"HTTPStatusError"}

\* await asyncio.sleep(2**attempt)
Backoff(attempt) == 2 ^ attempt

FetchOthers == <<history, churnOut, diffOut, commitOut, cohortOuts, blame, limiter, handler, ws,
                 disk, pc, dir, cloneExit, exits, timeouts, task, res, sv, merged,
                 pending, cleanups, outcome, returned>>

\* The end of a turn that neither returned nor raised: the next turn, or the
\* TimeoutError after the loop.
FetchContinue(f) ==
    IF f.attempt + 1 < MaxAttempts
    THEN [f EXCEPT !.attempt = @ + 1]
    ELSE [f EXCEPT !.attempt = @ + 1, !.pc = "raised", !.raised = "TimeoutError"]

\* One turn of the loop: the request, _check_rate_limit on its response, and
\* the tests on its status code.  The clock moves by the sleeps made.
FetchAttempt ==
    /\ fetch.pc = "request"
    /\ \E status \in Statuses, headers \in Headers,
          raising \in {"none", "HTTPStatusError"} :
         /\ raising \in raise_for_status(status)
         /\ LET wait == check_rate_limit(headers, fetch.now)
                f == [fetch EXCEPT
                        !.requests = Append(@, status),
                        !.sent = Append(@, fetch.now),
                        !.headers = headers,
                        !.checked = fetch.now,
                        !.slept = wait,
                        !.waits = @ \o wait,
                        !.now = @ + Slept(wait)]
            IN  fetch' =
                  CASE status = 200 ->
                         [f EXCEPT !.pc = "returned",
                                   !.value = <<"json", Len(f.requests)>>]
                    [] status = 202 ->
                         FetchContinue([f EXCEPT
                             !.sleeps = Append(@, Backoff(f.attempt)),
                             !.now = @ + Backoff(f.attempt)])
                    [] status = 404 ->
                         [f EXCEPT !.pc = "raised", !.raised = "HTTPStatusError"]
                    [] OTHER ->
                         IF raising = "none" THEN FetchContinue(f)
                         ELSE [f EXCEPT !.pc = "raised", !.raised = raising]
    /\ UNCHANGED FetchOthers

\* self._client.get raises: the exception leaves fetch_with_retry.
FetchTransportError ==
    /\ fetch.pc = "request"
    /\ \E e \in {"ConnectError", "ReadTimeout"} :
         fetch' = [fetch EXCEPT !.pc = "raised", !.raised = e,
                                !.failed = @ + 1]
    /\ UNCHANGED FetchOthers

\* One call of fetch_with_retry(path).
InitFetch ==
    /\ fetch = [pc |-> "request", attempt |-> 0, requests |-> <<>>,
                sleeps |-> <<>>, waits |-> <<>>, failed |-> 0,
                raised |-> "none", value |-> <<>>,
                now |-> FetchStart, sent |-> <<>>, headers |-> {},
                checked |-> FetchStart, slept |-> <<>>]
    /\ history = <<>>
    /\ churnOut = <<>>
    /\ diffOut = <<>>
    /\ commitOut = <<>>
    /\ cohortOuts = {}
    /\ handler = HandlerIdle
    /\ ws = WsIdle
    /\ disk = DiskIdle
    /\ blame = BlameIdle
    /\ limiter = LimiterIdle
    /\ pc = "direct"
    /\ dir = "none"
    /\ Idle

SpecFetch == InitFetch /\ [][FetchAttempt \/ FetchTransportError]_vars

\* The requests sent: those answered and the one that failed in transport.
FetchSent == Len(fetch.requests) + fetch.failed
Count202(k) == Cardinality({j \in 1..k : fetch.requests[j] = 202})

C23_RetryOn202Only ==
    /\ \A k \in 2..Len(fetch.requests) : fetch.requests[k - 1] = 202
    /\ \A k \in 1..Len(fetch.requests) :
         fetch.requests[k] \in {404, 500} =>
             /\ k = Len(fetch.requests)
             /\ fetch.raised = "HTTPStatusError"

\* --------------------------------------------------------- cache.py: Cache

\* The calls made: repositories as the handler passes them, head_sha values
\* as GitHub's pushed_at gives them, and the data stored.
CacheRepos == {<<"owner", "/", "repo">>, <<"other", "/", "repo">>}
CacheShas == {<<"10", ":", "00">>, <<"unknown">>}
CachePairs ==
    {<<r, s>> : r \in CacheRepos, s \in CacheShas} \ {<<<<"other", "/", "repo">>, <<"unknown">>>>}
CacheData == {"x", "y"}
\* The ttl the Cache was made with, the reach of the clock and the number
\* of calls made.
Ttl == 1
MaxNow == 2
MaxCalls == 3

\* Faulty variant: the key leaves head_sha out.
make_key_repo(repo_url, head_sha) == repo_url

\* _make_key: the text that is hashed; SHA-256 is taken to be injective.
make_key(repo_url, head_sha) == repo_url \o <<":">> \o head_sha

\* Faulty variant: entries never expire.
ExpiredNever(now, st_mtime) == FALSE

\* time.time() - path.stat().st_mtime > self.ttl
Expired(now, st_mtime) == now - st_mtime > Ttl

JsonPath(pair) == <<make_key(pair[1], pair[2]), ".json">>
TmpPath(pair) == <<make_key(pair[1], pair[2]), ".tmp">>
CacheFiles == UNION {{JsonPath(q), TmpPath(q)} : q \in CachePairs}

\* json.dump(data, f) as the write calls it makes, and json.load of what a
\* file holds: a text that is not a whole dump does not parse.
Dump(data) == <<<<data, "head">>, <<data, "tail">>>>
Load(content) ==
    IF \E d \in CacheData : content = Dump(d)
    THEN Ok(CHOOSE d \in CacheData : content = Dump(d))
    ELSE Raised("JSONDecodeError")

\* write(2) of one chunk at position k of a file.
WriteAt(content, k, chunk) ==
    [i \in 1..(IF k > Len(content) THEN k ELSE Len(content)) |->
        IF i = k THEN chunk
        ELSE IF i <= Len(content) THEN content[i] ELSE <<"hole", i>>]

NoEntry == [data |-> "none", at |-> 0 - 1]
CallIdle ==
    [op |-> "none", pc |-> "idle", pair |-> <<>>, data |-> "none", fd |-> 0,
     pos |-> 0, t |-> 0 - 1, result |-> "none", err |-> "none"]

CacheOthers == <<history, churnOut, diffOut, commitOut, cohortOuts, blame, limiter, handler, ws,
                 fetch, pc, dir, cloneExit, exits, timeouts, task, res, sv, merged,
                 pending, cleanups, outcome, returned>>

\* A caller enters Cache.get(repo_url, head_sha) or Cache.set(repo_url,
\* head_sha, data).
CacheCall ==
    /\ disk.ncalls < MaxCalls
    /\ \E p \in DOMAIN disk.call, op \in {"get", "set"}, q \in CachePairs,
          d \in CacheData :
         /\ disk.call[p].pc \in {"idle", "done"}
         /\ disk' = [disk EXCEPT
                !.ncalls = @ + 1,
                !.sets = IF op = "set" THEN @ \cup {<<q, d>>} ELSE @,
                !.call[p] = [CallIdle EXCEPT
                                !.op = op, !.pair = q,
                                !.data = IF op = "set" THEN d ELSE "none",
                                !.pc = IF op = "set" THEN "open" ELSE "exists"]]
    /\ UNCHANGED CacheOthers

\* set: open(tmp_path, "w") creates the file or empties the one of that name.
SetOpen ==
    /\ \E p \in DOMAIN disk.call :
         LET c == disk.call[p]
             id == disk.names[TmpPath(c.pair)]
         IN  /\ c.pc = "open"
             /\ disk' =
                  IF id = 0
                  THEN [disk EXCEPT
                          !.inodes = Append(@, [content |-> <<>>, mtime |-> disk.now]),
                          !.names[TmpPath(c.pair)] = Len(disk.inodes) + 1,
                          !.call[p].fd = Len(disk.inodes) + 1,
                          !.call[p].pc = "write"]
                  ELSE [disk EXCEPT
                          !.inodes[id] = [content |-> <<>>, mtime |-> disk.now],
                          !.call[p].fd = id,
                          !.call[p].pc = "write"]
    /\ UNCHANGED CacheOthers

\* set: json.dump(data, f), one write call at a time, to the file opened.
SetWrite ==
    /\ \E p \in DOMAIN disk.call :
         LET c == disk.call[p]
         IN  /\ c.pc = "write"
             /\ disk' = [disk EXCEPT
                    !.inodes[c.fd] =
                        [content |-> WriteAt(@.content, c.pos + 1,
                                             Dump(c.data)[c.pos + 1]),
                         mtime |-> disk.now],
                    !.call[p].pos = @ + 1,
                    !.call[p].t = disk.now,
                    !.call[p].pc = IF c.pos + 1 = Len(Dump(c.data)) THEN "rename"
                                   ELSE "write"]
    /\ UNCHANGED CacheOthers

\* set: the file is closed and os.rename(tmp_path, final_path) puts it in
\* place; the rename fails when tmp_path is no longer there.
SetRename ==
    /\ \E p \in DOMAIN disk.call :
         LET c == disk.call[p]
             id == disk.names[TmpPath(c.pair)]
         IN  /\ c.pc = "rename"
             /\ disk' =
                  IF id = 0
                  THEN [disk EXCEPT !.call[p].pc = "done",
                                    !.call[p].err = "FileNotFoundError"]
                  ELSE [disk EXCEPT
                          !.names[JsonPath(c.pair)] = id,
                          !.names[TmpPath(c.pair)] = 0,
                          !.last[c.pair] = [data |-> c.data, at |-> c.t],
                          !.call[p].pc = "done"]
    /\ UNCHANGED CacheOthers

\* get: if not path.exists(): return None
GetExists ==
    /\ \E p \in DOMAIN disk.call :
         LET c == disk.call[p]
         IN  /\ c.pc = "exists"
             /\ disk' = IF disk.names[JsonPath(c.pair)] = 0
                        THEN [disk EXCEPT !.call[p].pc = "done"]
                        ELSE [disk EXCEPT !.call[p].pc = "stat"]
    /\ UNCHANGED CacheOthers

\* get: the clock is read and compared with the file's st_mtime.
GetStat ==
    /\ \E p \in DOMAIN disk.call :
         LET c == disk.call[p]
             id == disk.names[JsonPath(c.pair)]
         IN  /\ c.pc = "stat"
             /\ disk' =
                  IF id = 0
                  THEN [disk EXCEPT !.call[p].pc = "done", !.call[p].t = disk.now,
                                    !.call[p].err = "FileNotFoundError"]
                  ELSE IF Expired(disk.now, disk.inodes[id].mtime)
                  THEN [disk EXCEPT !.call[p].pc = "done", !.call[p].t = disk.now]
                  ELSE [disk EXCEPT !.call[p].pc = "load", !.call[p].t = disk.now]
    /\ UNCHANGED CacheOthers

\* get: with open(path) as f: return json.load(f)
GetLoad ==
    /\ \E p \in DOMAIN disk.call :
         LET c == disk.call[p]
             id == disk.names[JsonPath(c.pair)]
             r == IF id = 0 THEN Raised("FileNotFoundError")
                  ELSE Load(disk.inodes[id].content)
         IN  /\ c.pc = "load"
             /\ disk' = [disk EXCEPT
                    !.call[p].pc = "done",
                    !.call[p].err = r.err,
                    !.call[p].result = IF r.err = "none" THEN r.val ELSE "none"]
    /\ UNCHANGED CacheOthers

\* A second passes.
CacheTick ==
    /\ disk.now < MaxNow
    /\ disk' = [disk EXCEPT !.now = @ + 1]
    /\ UNCHANGED CacheOthers

NextCache ==
    \/ CacheCall
    \/ SetOpen
    \/ SetWrite
    \/ SetRename
    \/ GetExists
    \/ GetStat
    \/ GetLoad
    \/ CacheTick

CacheStart(callers) ==
    /\ disk = [names |-> [f \in CacheFiles |-> 0], inodes |-> <<>>, now |-> 0,
               ncalls |-> 0, sets |-> {},
               last |-> [q \in CachePairs |-> NoEntry],
               call |-> [p \in callers |-> CallIdle]]
    /\ history = <<>>
    /\ churnOut = <<>>
    /\ diffOut = <<>>
    /\ commitOut = <<>>
    /\ cohortOuts = {}
    /\ handler = HandlerIdle
    /\ ws = WsIdle
    /\ fetch = FetchIdle
    /\ blame = BlameIdle
    /\ limiter = LimiterIdle
    /\ pc = "direct"
    /\ dir = "none"
    /\ Idle

\* Two callers, threads or server processes, on one empty cache directory.
InitCache == CacheStart({1, 2})
SpecCache == InitCache /\ [][NextCache]_vars

\* One caller: its calls follow one another.
InitCacheSeq == CacheStart({1})
SpecCacheSeq == InitCacheSeq /\ [][NextCache]_vars

\* C24: every get that has ended gave None or the complete data of a set
\* call made for its key and raised nothing, and every set that has ended
\* raised nothing.
C24_AtomicWrites ==
    \A p \in DOMAIN disk.call :
        LET c == disk.call[p]
        IN  c.pc = "done" =>
              /\ c.err = "none"
              /\ (c.op = "get" /\ c.result # "none") => <<c.pair, c.result>> \in disk.sets

\* The get calls that have ended, each with the entry most recently set for
\* its (repo, sha); the caller's latest call is the one on record.
EndedGets ==
    {p \in DOMAIN disk.call : disk.call[p].op = "get" /\ disk.call[p].pc = "done"}

\* C25: a get that reads the clock no more than ttl seconds after the last
\* write of the most recent set for its (repo, sha) returns the data of that
\* set, whatever was set under another repo or another sha; repositories
\* are owner/name identifiers as the handler passes them.
C25_GetAfterSet ==
    \A p \in EndedGets :
        LET c == disk.call[p]
            e == disk.last[c.pair]
        IN  e # NoEntry =>
              /\ c.t >= e.at
              /\ c.t - e.at <= Ttl => (c.err = "none" /\ c.result = e.data)

\* A get has returned x for a key set to x, after y was set for the same
\* repository under the other sha.
C25_Witness ==
    \E p \in EndedGets, q \in CachePairs :
        LET c == disk.call[p]
        IN  /\ c.result = "x"
            /\ q[1] = c.pair[1]
            /\ q[2] # c.pair[2]
            /\ disk.last[q].data = "y"
            /\ disk.last[q].at > disk.last[c.pair].at

\* C26: a get that returns an entry read the clock no more than ttl seconds
\* after that entry's last write: it returns None for an older entry and for
\* a key that was never set.
C26_NoStaleEntry ==
    \A p \in EndedGets :
        LET c == disk.call[p]
            e == disk.last[c.pair]
        IN  c.result # "none" => (e # NoEntry /\ c.t - e.at <= Ttl)

\* A get has returned None for an entry written more than ttl seconds before.
C26_Witness ==
    \E p \in EndedGets :
        LET c == disk.call[p]
            e == disk.last[c.pair]
        IN  /\ c.result = "none"
            /\ c.err = "none"
            /\ e # NoEntry
            /\ c.t - e.at > Ttl

\* C27: a request whose (repo, pushed_at) the cache held is answered 200 with
\* the cached entry after the one get_repo request alone: no statistics
\* request, no git command and no cache write; a request answered with a
\* newly built result has written it to the cache, under its own key, once,
\* and no request writes more than once.
C27_CacheHitShortCircuits ==
    /\ handler.sets <= 1
    /\ handler.pc = "done" =>
         /\ <<handler.repo, handler.head_sha>> \in handler.held =>
              /\ handler.status = "200"
              /\ handler.body = "cached"
              /\ handler.requests = 1
              /\ handler.stage = "none"
              /\ exits = {}
              /\ \A a \in Analyzers : task[a] = "idle"
              /\ handler.sets = 0
              /\ handler.cache = handler.held
         /\ (handler.status = "200" /\ handler.body # "cached") =>
              /\ handler.sets = 1
              /\ handler.cache = handler.held \cup {<<handler.repo, handler.head_sha>>}

\* A request has been answered from the cache.
C27_Witness ==
    /\ handler.pc = "done"
    /\ handler.body = "cached"
    /\ <<handler.repo, handler.head_sha>> \in handler.held

\* A request that missed the cache has been answered with a result it built.
C27_WitnessMiss ==
    /\ handler.pc = "done"
    /\ handler.status = "200"
    /\ handler.body = "result"
    /\ handler.sets = 1

\* C28: a repo parameter that is not of the form owner/repo is answered 400
\* with no GitHub request made; a 404 from GitHub is answered 404; any other
\* HTTPStatusError, a transport error and TimeoutError are answered 502; and
\* a request not answered 200 has written nothing to the cache.
C28_FailureMapping ==
    handler.pc = "done" =>
        /\ ~OwnerRepoForm(handler.repo) =>
               (handler.status = "400" /\ handler.requests = 0)
        /\ handler.reply = "404" => handler.status = "404"
        /\ handler.reply \in {"500", "transport", "timeout"} => handler.status = "502"
        /\ handler.status # "200" => (handler.sets = 0 /\ handler.cache = handler.held)

\* C28 but for the line feed: the same mapping for every repo parameter that
\* does not end in a line feed.
C28_FailureMappingNoLF ==
    (handler.pc = "done" /\ (handler.repo = <<>> \/ handler.repo[Len(handler.repo)] # LF))
        => C28_FailureMapping

\* ------------------------------------- survival sampling: break and skip

\* The instant of the sample `weeks` weeks after the end of cohort k, in
\* minutes, and the offsets the loop takes before `weeks`.
InstantAfter(k, weeks) == quarter_dates(k).cohort_end + weeks * 7 * 1440
OffsetsBefore(weeks) == {w \in 1..(weeks - 1) : w % 4 = 0}

\* C29: the loop of a cohort is at an offset only if no earlier offset's
\* sample instant was past the most recent commit, a blame is only under way
\* for an offset whose instant is not past it, and every sample with
\* weeks_elapsed > 0, of the curve being built and of the finished ones, has
\* an instant not later than the most recent commit.
C29_TruncatedAtHead ==
    (task["survival"] \in {"running", "ok"} /\ sv.pc \in {"numstat", "sample", "blame", "done"}) =>
        LET commits == ParsedLog.val
            head == HeadInstant(commits)
            keys == SelectedKeys(commits)
        IN  /\ sv.pc \in {"sample", "blame"} =>
                 /\ \A w \in OffsetsBefore(sv.weeks) : InstantAfter(keys[sv.ci], w) <= head
                 /\ \A j \in 2..Len(sv.data) :
                      InstantAfter(keys[sv.ci], sv.data[j].weeks_elapsed) <= head
            /\ sv.pc = "blame" => InstantAfter(keys[sv.ci], sv.weeks) <= head
            /\ \A i \in 1..Len(sv.curves) : \A j \in 2..Len(sv.curves[i].data) :
                 InstantAfter(sv.curves[i].cohort, sv.curves[i].data[j].weeks_elapsed) <= head

\* A finished curve ends before week 52 with samples taken: the offset after
\* its last one was past the most recent commit.
C29_Witness ==
    /\ task["survival"] = "ok"
    /\ \E i \in 1..Len(sv.curves) :
         LET data == sv.curves[i].data
             last == data[Len(data)].weeks_elapsed
         IN  /\ Len(data) > 1
             /\ last < 52
             /\ InstantAfter(sv.curves[i].cohort, last + 4) > HeadInstant(ParsedLog.val)

\* C30: a revision search that yields no sample leaves the loop at the very
\* next offset of the same cohort, nothing appended and nothing raised, and
\* a curve is closed at an offset only when that offset is past week 52 or
\* its sample instant past the most recent commit.
C30_SkipOnlyThisOffset ==
    [][(sv.pc = "sample" /\ task["survival"] = "running") =>
          /\ (sv'.pc = "sample" /\ sv'.ci = sv.ci) =>
                /\ sv'.weeks = sv.weeks + 4
                /\ sv'.data = sv.data
                /\ sv'.curves = sv.curves
                /\ task' = task
          /\ Len(sv'.curves) > Len(sv.curves) =>
                \/ sv.weeks > 52
                \/ InstantAfter(SelectedKeys(ParsedLog.val)[sv.ci], sv.weeks)
                       > HeadInstant(ParsedLog.val)]_vars

\* A finished curve has a gap between two samples, no revision search having
\* exited non-zero: the searches in between found no commit.
C30_Witness ==
    /\ task["survival"] = "ok"
    /\ "rev-list" \notin exits
    /\ \E i \in 1..Len(sv.curves) :
         \E j \in 1..(Len(sv.curves[i].data) - 1) :
             sv.curves[i].data[j + 1].weeks_elapsed
                 > sv.curves[i].data[j].weeks_elapsed + 4

\* ------------------------------- _count_surviving_lines, one file at a time

\* What one `git blame --porcelain` can end with here: the replies of the
\* sampling loop, and a non-zero exit after part of a listing was written.
TallyReplies ==
    BlameReplies \cup
        {[st |-> "nonzero", out |-> << BlameHeader("sha_a"), <<TAB, "line1">> >>]}
TallyFiles == {P_MAIN, P_README, P_UTILS}
\* The sha sets of cohorts: full-length ids of the history walk, each the
\* first field of a "%H %aI" line.
TallyShas == SUBSET {<<sha>> : sha \in FullShas}

TallyOthers == <<history, churnOut, diffOut, commitOut, cohortOuts, limiter,
                 handler, ws, fetch, disk, pc, dir, cloneExit, exits, timeouts, task, res,
                 sv, merged, pending, cleanups, outcome, returned>>

\* One turn of `for filepath in files`: the blame of one file and the tally
\* of its listing; after the last file the count is returned.
BlameFile ==
    /\ blame.pc = "loop"
    /\ \E filepath \in blame.files, reply \in TallyReplies :
         LET added == count_surviving_lines({filepath},
                          [f \in {filepath} |-> reply], blame.cohort_shas)
         IN  blame' = [blame EXCEPT
                 !.files = @ \ {filepath},
                 !.surviving = @ + added,
                 !.seen = Append(@, [file |-> filepath, st |-> reply.st,
                                     out |-> reply.out, added |-> added]),
                 !.pc = IF blame.files = {filepath} THEN "returned" ELSE "loop"]
    /\ UNCHANGED TallyOthers

\* _count_surviving_lines(bare_path, rev, files, cohort_shas) is entered.
InitTally ==
    /\ \E files \in SUBSET TallyFiles, shas \in TallyShas :
         blame = [pc |-> IF files = {} THEN "returned" ELSE "loop",
                  all |-> files, files |-> files, cohort_shas |-> shas,
                  surviving |-> 0, seen |-> <<>>]
    /\ history = <<>>
    /\ churnOut = <<>>
    /\ diffOut = <<>>
    /\ commitOut = <<>>
    /\ cohortOuts = {}
    /\ handler = HandlerIdle
    /\ ws = WsIdle
    /\ fetch = FetchIdle
    /\ disk = DiskIdle
    /\ limiter = LimiterIdle
    /\ pc = "direct"
    /\ dir = "present"
    /\ Idle

SpecTally == InitTally /\ [][BlameFile]_vars

RECURSIVE SumAdded(_)
SumAdded(seen) ==
    IF seen = <<>> THEN 0 ELSE Head(seen).added + SumAdded(Tail(seen))

\* C31: a file whose blame timed out or exited non-zero adds nothing to the
\* tally, whatever was listed before the failure; the loop goes on: the count
\* is the sum of what the files added, and when it is returned every file of
\* the set has been blamed once.
C31_BlameFailureSkipsFile ==
    /\ blame.pc \in {"loop", "returned"}
    /\ \A i \in 1..Len(blame.seen) :
         blame.seen[i].st # "ok" => blame.seen[i].added = 0
    /\ blame.surviving = SumAdded(blame.seen)
    /\ blame.pc = "returned" =>
         /\ {blame.seen[i].file : i \in 1..Len(blame.seen)} = blame.all
         /\ Len(blame.seen) = Cardinality(blame.all)

\* The count has been returned after a blame that timed out, one that exited
\* non-zero with part of a listing written, and then one that added lines.
C31_Witness ==
    /\ blame.pc = "returned"
    /\ Len(blame.seen) = 3
    /\ blame.seen[1].st = "timeout"
    /\ blame.seen[2].st = "nonzero" /\ blame.seen[2].out # <<>>
    /\ blame.seen[3].st = "ok" /\ blame.seen[3].added > 0
    /\ blame.surviving = blame.seen[3].added

\* The lines of a listing that are headers of a line attributed to a commit
\* of the cohort: the first character is no tab, the first of at least three
\* fields is a full-length id, and that id is in the cohort's set.
CohortHeaders(out, cohort_shas) ==
    {i \in 1..Len(out) :
        /\ out[i] # <<>>
        /\ out[i][1] \in FullShas
        /\ <<out[i][1]>> \in cohort_shas
        /\ Len(SplitWs(out[i])) >= 3}

\* C34: a listing adds to the tally the number of its header lines whose
\* first token is a full-length id of the cohort's set, one per line; lines
\* that start with a tab and metadata lines add nothing.
C34_TallyCountsCohortHeaders ==
    \A i \in 1..Len(blame.seen) :
        blame.seen[i].st = "ok" =>
            blame.seen[i].added =
                Cardinality(CohortHeaders(blame.seen[i].out, blame.cohort_shas))

\* A listing with a content line that reads like a header of a cohort commit
\* has been tallied: its two header lines were counted, the content line not.
C34_Witness ==
    \E i \in 1..Len(blame.seen) :
        /\ blame.seen[i].st = "ok"
        /\ <<"sha_a">> \in blame.cohort_shas
        /\ \E j \in 1..Len(blame.seen[i].out) :
             LET l == blame.seen[i].out[j]
             IN  Head(l) = TAB /\ Len(l) > 1 /\ l[2] = "sha_a"
        /\ blame.seen[i].added = 2

\* ------------------------------------------- survival: cohorts of no lines

\* A quarter-bounded numstat output that reports no added line: each line is
\* blank, has fewer than three tab-separated fields, is that of a binary
\* file, or counts 0.
ZeroAdded(out) ==
    \A i \in 1..Len(out) :
        LET parts == Split(Strip(out[i]), TAB)
        IN  Len(parts) < 3 \/ parts[1] = <<"-">> \/ parts[1] = <<"0">>

\* C32: the sampling loop is only entered for a cohort with added lines; in
\* a repository whose quarter-bounded queries all report 0 added lines every
\* curve is the single sample (0, 1.0), no revision search and no blame is
\* made, and a run in which no query failed returns one such curve per
\* selected cohort.
C32_EmptyCohortSingleSample ==
    /\ sv.pc \in {"sample", "blame"} => sv.total_added > 0
    /\ (cohortOuts # {} /\ \A out \in cohortOuts : ZeroAdded(out)) =>
         /\ sv.pc \notin {"sample", "blame"}
         /\ "rev-list" \notin exits
         /\ \A i \in 1..Len(sv.curves) :
              sv.curves[i].data = <<[weeks_elapsed |-> 0, surviving_lines |-> 10000]>>
         /\ (task["survival"] = "ok" /\ "cohort-numstat" \notin exits) =>
              LET keys == SelectedKeys(ParsedLog.val)
              IN  /\ Len(sv.curves) = Len(keys)
                  /\ \A i \in 1..Len(keys) : sv.curves[i].cohort = keys[i]

\* Eight cohorts without an added line have been returned, each as the
\* single sample.
C32_Witness ==
    /\ task["survival"] = "ok"
    /\ \A out \in cohortOuts : ZeroAdded(out)
    /\ "cohort-numstat" \notin exits
    /\ Len(sv.curves) = 8
    /\ \A i \in 1..8 : Len(sv.curves[i].data) = 1

\* ------------------------------------------------ timeouts of git commands

\* C33: an analyzer one of whose git commands, the blame apart, ran into the
\* timeout has raised TimeoutExpired and returned nothing, also when the
\* command was the quarter-bounded numstat or the revision search of
\* get_survival_curves; and an analyze_repo call in which that happened ends
\* with an exception, never with a result.
C33_TimeoutIsFatal ==
    /\ \A site \in timeouts :
         /\ task[Owner(site)] = "TimeoutExpired"
         /\ res[Owner(site)] = NoResult[Owner(site)]
    /\ (timeouts # {} /\ Finished) =>
         /\ outcome \in Errors
         /\ returned = NoDict

\* The revision search of a cohort timed out after its quarter-bounded
\* numstat had been answered, and analyze_repo has raised TimeoutExpired.
C33_Witness ==
    /\ timeouts = {"rev-list"}
    /\ Finished
    /\ outcome = "TimeoutExpired"
    /\ task["survival"] = "TimeoutExpired"

\* The status and headers of the response the last turn received.
LastStatus == fetch.requests[Len(fetch.requests)]
LastBackoff == IF LastStatus = 202 THEN fetch.sleeps[Len(fetch.sleeps)] ELSE 0

\* C35: when the response of a turn carries X-RateLimit-Remaining equal to
\* 0, the turn sleeps max(reset - now, 0) seconds, reset being 0 without an
\* X-RateLimit-Reset header, and the call returns, raises or sends its next
\* request no earlier than the end of that sleep; when the header is absent
\* or greater than 0 the turn makes no rate-limit sleep.  The clock of the
\* call has moved by its rate-limit and backoff sleeps only.
C35_RateLimitSleep ==
    /\ fetch.requests # <<>> =>
         LET h == fetch.headers
             exhausted ==
                 /\ HasHeader(h, "X-RateLimit-Remaining")
                 /\ ToInt(GetHeader(h, "X-RateLimit-Remaining", <<>>)) = 0
             reset ==
                 IF HasHeader(h, "X-RateLimit-Reset")
                 THEN ToInt(GetHeader(h, "X-RateLimit-Reset", <<>>)) ELSE 0
             due == IF reset > fetch.checked THEN reset - fetch.checked ELSE 0
         IN  /\ exhausted =>
                  /\ fetch.slept = <<due>>
                  /\ fetch.now = fetch.checked + due + LastBackoff
             /\ ~exhausted =>
                  /\ fetch.slept = <<>>
                  /\ fetch.now = fetch.checked + LastBackoff
             /\ fetch.sent[Len(fetch.sent)] = fetch.checked
    /\ fetch.now = FetchStart + Slept(fetch.waits) + Slept(fetch.sleeps)
    /\ \A k \in 2..Len(fetch.sent) : fetch.sent[k] >= fetch.sent[k - 1]

\* A first response of status 202 with no requests remaining and a reset four
\* seconds ahead: the call slept 4 seconds, then the backoff second, sent its
\* second request at 10 and returned its body.
C35_Witness ==
    /\ fetch.pc = "returned"
    /\ fetch.requests = <<202, 200>>
    /\ fetch.waits = <<4>>
    /\ fetch.sent = <<FetchStart, 10>>
    /\ fetch.slept = <<>>

\* --------------------------------- rate_limit.py: SlidingWindowRateLimiter

\* The limiter under study: SlidingWindowRateLimiter(max_requests,
\* window_seconds), the callers' addresses, the reach of time.monotonic()
\* and the number of is_allowed calls since the last reset.
max_requests == 2
window_seconds == 2
ClientIps == {"10.0.0.1", "10.0.0.2"}
LimiterClock == 3
LimiterCalls == 5

\* self._requests[client_ip] of the defaultdict(list): the empty list for a
\* key not yet there.
RequestsOf(requests, client_ip) ==
    IF client_ip \in DOMAIN requests THEN requests[client_ip] ELSE <<>>

\* Faulty variant: a timestamp exactly window_seconds old is kept.
is_allowed_closed(requests, client_ip, now) ==
    LET cutoff == now - window_seconds
        kept == SelectSeq(RequestsOf(requests, client_ip),
                          LAMBDA ts : ts >= cutoff)
    IN  IF Len(kept) >= max_requests
        THEN [allowed |-> FALSE, requests |-> (client_ip :> kept) @@ requests]
        ELSE [allowed |-> TRUE,
              requests |-> (client_ip :> Append(kept, now)) @@ requests]

\* is_allowed(client_ip) at time now: what it returns and the dictionary it
\* leaves.
is_allowed(requests, client_ip, now) ==
    LET cutoff == now - window_seconds
        kept == SelectSeq(RequestsOf(requests, client_ip),
                          LAMBDA ts : ts > cutoff)
    IN  IF Len(kept) >= max_requests
        THEN [allowed |-> FALSE, requests |-> (client_ip :> kept) @@ requests]
        ELSE [allowed |-> TRUE,
              requests |-> (client_ip :> Append(kept, now)) @@ requests]

LimiterOthers == <<history, churnOut, diffOut, commitOut, cohortOuts, blame,
                   handler, ws, fetch, disk, pc, dir, cloneExit, exits, timeouts,
                   task, res, sv, merged, pending, cleanups, outcome, returned>>

\* A call of is_allowed; limiter.calls is the log of the calls made since the
\* last reset.
IsAllowed ==
    /\ Len(limiter.calls) < LimiterCalls
    /\ \E client_ip \in ClientIps :
         LET r == is_allowed(limiter.requests, client_ip, limiter.now)
         IN  limiter' = [limiter EXCEPT
                 !.requests = r.requests,
                 !.calls = Append(@, [client_ip |-> client_ip,
                                      at |-> limiter.now,
                                      allowed |-> r.allowed])]
    /\ UNCHANGED LimiterOthers

\* time.monotonic() moves on between two calls.
LimiterTick ==
    /\ limiter.now < LimiterClock
    /\ limiter' = [limiter EXCEPT !.now = @ + 1]
    /\ UNCHANGED LimiterOthers

\* reset(): self._requests.clear()
LimiterReset ==
    /\ limiter.calls # <<>>
    /\ limiter' = [limiter EXCEPT !.requests = <<>>, !.calls = <<>>]
    /\ UNCHANGED LimiterOthers

InitLimiter ==
    /\ limiter = LimiterIdle
    /\ history = <<>>
    /\ churnOut = <<>>
    /\ diffOut = <<>>
    /\ commitOut = <<>>
    /\ cohortOuts = {}
    /\ handler = HandlerIdle
    /\ ws = WsIdle
    /\ fetch = FetchIdle
    /\ disk = DiskIdle
    /\ blame = BlameIdle
    /\ pc = "direct"
    /\ dir = "none"
    /\ Idle

SpecLimiter == InitLimiter /\ [][IsAllowed \/ LimiterTick \/ LimiterReset]_vars

\* The calls of a client in the log that were allowed at a time from lo to hi.
AllowedCalls(client_ip, lo, hi) ==
    {k \in 1..Len(limiter.calls) :
        /\ limiter.calls[k].client_ip = client_ip
        /\ limiter.calls[k].allowed
        /\ limiter.calls[k].at >= lo
        /\ limiter.calls[k].at <= hi}

\* The times of the allowed calls of a client later than cutoff, in call order.
RECURSIVE AllowedTimes(_, _, _)
AllowedTimes(calls, client_ip, cutoff) ==
    IF calls = <<>> THEN <<>>
    ELSE LET c == Head(calls)
             rest == AllowedTimes(Tail(calls), client_ip, cutoff)
         IN  IF c.client_ip = client_ip /\ c.allowed /\ c.at > cutoff
             THEN <<c.at>> \o rest ELSE rest

\* The time of the last call of a client in the log.
LastCallAt(client_ip) ==
    LET ks == {k \in 1..Len(limiter.calls) : limiter.calls[k].client_ip = client_ip}
    IN  limiter.calls[CHOOSE k \in ks : \A j \in ks : j <= k].at

\* C36 as stated: no client has more than max_requests allowed calls in a
\* span of window_seconds, its two ends included.
C36_ClosedInterval ==
    \A client_ip \in ClientIps, t \in 0..LimiterClock :
        Cardinality(AllowedCalls(client_ip, t, t + window_seconds)) <= max_requests

\* C36, amended: no client has more than max_requests allowed calls at times
\* t <= at < t + window_seconds, for any t; a call is allowed exactly when
\* fewer than max_requests earlier allowed calls of the same client are less
\* than window_seconds old, whatever other clients did; the timestamps
\* recorded for a client are those of its allowed calls less than
\* window_seconds older than its last call, so a denied call records none.
C36_SlidingWindow ==
    /\ \A client_ip \in ClientIps, t \in 0..LimiterClock :
         Cardinality(AllowedCalls(client_ip, t, t + window_seconds - 1))
             <= max_requests
    /\ \A k \in 1..Len(limiter.calls) :
         LET c == limiter.calls[k]
             recent == {j \in 1..(k - 1) :
                          /\ limiter.calls[j].client_ip = c.client_ip
                          /\ limiter.calls[j].allowed
                          /\ c.at - limiter.calls[j].at < window_seconds}
         IN  c.allowed <=> Cardinality(recent) < max_requests
    /\ \A k \in 2..Len(limiter.calls) :
         limiter.calls[k].at >= limiter.calls[k - 1].at
    /\ DOMAIN limiter.requests = {limiter.calls[k].client_ip : k \in 1..Len(limiter.calls)}
    /\ \A client_ip \in DOMAIN limiter.requests :
         limiter.requests[client_ip] =
             AllowedTimes(limiter.calls, client_ip,
                          LastCallAt(client_ip) - window_seconds)

\* A client used up its max_requests calls at one time, was denied at that
\* time while another client was allowed, and was allowed again
\* window_seconds later.
C36_Witness ==
    LET n == Len(limiter.calls)
    IN  /\ n = max_requests + 3
        /\ \A k \in 1..max_requests :
             /\ limiter.calls[k].client_ip = "10.0.0.1"
             /\ limiter.calls[k].at = 0
             /\ limiter.calls[k].allowed
        /\ limiter.calls[n - 2] = [client_ip |-> "10.0.0.1", at |-> 0, allowed |-> FALSE]
        /\ limiter.calls[n - 1] = [client_ip |-> "10.0.0.2", at |-> 0, allowed |-> TRUE]
        /\ limiter.calls[n] = [client_ip |-> "10.0.0.1", at |-> window_seconds,
                               allowed |-> TRUE]

\* -------------------------------------------- analyze_repo: what is returned

\* C37: the merge loop has changed nothing but the churn of the file_tree
\* entries: the entries are those get_file_tree returned, in its order, with
\* their paths and loc values, and the hotspots, churn and survival results
\* are as they were; the dictionary analyze_repo returns holds the hotspots
\* get_hotspots returned, that file_tree and the curves get_survival_curves
\* returned, and nothing else.
C37_MergeChangesChurnOnly ==
    LET tree == get_file_tree(diffOut).val
        SameEntries(file_tree) ==
            /\ Len(file_tree) = Len(tree)
            /\ \A i \in 1..Len(tree) :
                 /\ DOMAIN file_tree[i] = {"path", "loc", "churn"}
                 /\ file_tree[i].path = tree[i].path
                 /\ file_tree[i].loc = tree[i].loc
    IN  /\ merged =>
             /\ SameEntries(res["file_tree"])
             /\ res["hotspots"] = get_hotspots(NameOnlyOut(history))
             /\ res["churn"] = get_churn(churnOut).val
             /\ res["survival"] = sv.curves
        /\ outcome = "returned" =>
             /\ DOMAIN returned = {"hotspots", "file_tree", "survival_curves"}
             /\ SameEntries(returned.file_tree)
             /\ returned.hotspots = get_hotspots(NameOnlyOut(history))
             /\ returned.survival_curves = sv.curves

\* A returned dictionary with hotspots, curves and a file tree in which the
\* merge wrote a churn into one entry and left another, of a path get_churn
\* did not report, at 0.
C37_Witness ==
    /\ outcome = "returned"
    /\ returned.hotspots # <<>>
    /\ returned.survival_curves # <<>>
    /\ \E i, k \in 1..Len(returned.file_tree) :
         /\ returned.file_tree[i].churn > 0
         /\ returned.file_tree[i].loc > 0
         /\ IndexOfPath(res["churn"], returned.file_tree[k].path) = 0

====
